---- MODULE Spec2Model ----
(***************************************************************************)
(* Verification model of yandex-music-downloader: request signing, the     *)
(* download-info resolver, the track decryptor, the JSON track model       *)
(* normaliser, the retry wrapper of the client, the candidate selector of  *)
(* the legacy protocol and the track loop of the command line.             *)
(*                                                                         *)
(* Conventions.  A Python str whose characters matter is a sequence of     *)
(* tokens (TLA+ strings, each a character or an indivisible chunk without  *)
(* commas); "," is always a token of its own, so removing commas, joining  *)
(* and formatting are computed, not assumed.  A Python dict whose order    *)
(* matters is a sequence of [k, v] entries in insertion order.  A JSON     *)
(* value is a tagged record (JNull, JBool, JInt, JStr, JList, JDict); a    *)
(* JSON object is a function from the keys it holds to values.  A call     *)
(* that can raise yields [ok |-> TRUE, val |-> ...] or                     *)
(* [ok |-> FALSE, exc |-> "<exception class>"].                            *)
(***************************************************************************)
EXTENDS Integers, Sequences, FiniteSets, TLC

VARIABLES
    pc,          \* position of the modelled run
    params,      \* sign_params: the parameter dict handed in (insertion-ordered)
    serialized,  \* sign_params: the HMAC message built from params
    signed,      \* sign_params: the returned dict (insertion-ordered)
    cli_quality, \* --quality of the run (0, 1, 2)
    track_id,    \* id of the track being resolved
    request,     \* get_download_info: query sent to /get-file-info
    response,    \* get_download_info: JSON answer of the service
    info,        \* to_downloadable_track: outcome (descriptor, suffix) or exception
    payload,     \* download_track: bytes retrieved from the chosen url
    track_data,  \* download_track: outcome (bytes) or exception
    plaintext,   \* decryptor: the bytes the round trip started from
    aes_key,     \* decryptor: hex key string
    cipher,      \* decryptor: outcome of the first decrypt_data pass
    recovered,   \* decryptor: outcome of the second decrypt_data pass
    raw,         \* normaliser: the JSON handed to the parser
    parsed,      \* normaliser: outcome of the parser call
    log,         \* normaliser: number of logger.error calls made
    args,          \* run: the command-line options that steer the track loop
    album_ids,     \* run: albums of the artist listing not yet looked at
    result_tracks, \* run: tracks yielded to the track loop and not yet taken
    processed,     \* run: tracks the loop has taken, in order
    printed,       \* run: messages printed or logged, in order
    downloaded,    \* run: tracks written to disk, with the cover embedded
    covers_cache,  \* run: the covers cache (album id -> cover)
    cover_fetches, \* run: album id of every cover fetched from the network
    run,           \* run: "running", Ok("finished") or the exception that ended it
    max_try_count, \* retry: --tries
    retry_delay,   \* retry: --retry-delay
    try_count,     \* retry_wrapper: its local counter
    attempts,      \* retry: calls of the wrapped request made so far
    slept,         \* retry: seconds of time.sleep so far
    network,       \* retry: what the service answers to the request
    outcome,       \* retry: what the caller of the request got
    messages,      \* retry: messages printed for the user
    candidates,    \* selector: the direct-link candidates of a track
    best,          \* selector: TRUE for a best-quality request
    selected,      \* selector: outcome of the selection
    files,         \* run: paths of the audio files on disk
    info_requests, \* run: track id of every download-info request of this run
    first_run,     \* run: what was asked for, and what an earlier run did with it
    url,           \* url: the path of --url
    ids,           \* url: args.artist_id, album_id, track_id, playlist_id
    exit_code,     \* url: what main returned (JNull while it has not)
    client,        \* url: TRUE once init_client was called
    fs,            \* write: content of the target and the temporary path
    fault,         \* write: the step that fails in this call, and the exception
    write_result,  \* write: outcome of write_via_temporary_file
    service,       \* listing: the answer of the service for every page number
    page,          \* listing: albums_id_gen's page
    has_next,      \* listing: albums_id_gen's has_next
    page_requests, \* listing: page number of every artists_direct_albums call
    filtered,      \* listing: albums handed to filter_album, in order
    total_track_count, \* listing: main's total_track_count
    playlist,      \* playlist: the track ids playlist.fetch_tracks returned
    offset,        \* playlist: i of playlist_tracks_gen
    track_requests,\* playlist: the id list of every client.tracks call
    path_pattern,  \* path: --path-pattern
    meta,          \* path: the track whose path is prepared
    unsafe_path,   \* path: --unsafe-path
    prepared       \* path: outcome of prepare_base_path

vars == <<pc, params, serialized, signed, cli_quality, track_id, request, response, info,
          payload, track_data, plaintext, aes_key, cipher,
          recovered, raw, parsed, log,
          args, album_ids, result_tracks, processed, printed, downloaded,
          covers_cache, cover_fetches, run,
          max_try_count, retry_delay, try_count, attempts, slept, network,
          outcome, messages,
          candidates, best, selected,
          files, info_requests, first_run,
          url, ids, exit_code, client,
          fs, fault, write_result,
          service, page, has_next, page_requests, filtered, total_track_count,
          playlist, offset, track_requests,
          path_pattern, meta, unsafe_path, prepared>>

\* --------------------------------------------------------------------------
\* Python values
\* --------------------------------------------------------------------------
Ok(v) == [ok |-> TRUE, val |-> v]
Raise(e) == [ok |-> FALSE, exc |-> e]

JNull == [t |-> "null"]
JBool(b) == [t |-> "bool", b |-> b]
JInt(n) == [t |-> "int", n |-> n]
JStr(s) == [t |-> "str", s |-> s]
JList(l) == [t |-> "list", l |-> l]
JDict(d) == [t |-> "dict", d |-> d]

\* bool(v) of a JSON value
Truthy(v) ==
    CASE v.t = "null" -> FALSE
      [] v.t = "bool" -> v.b
      [] v.t = "int" -> v.n # 0
      [] v.t = "str" -> v.s # <<>>
      [] v.t = "list" -> Len(v.l) > 0
      [] v.t = "dict" -> DOMAIN v.d # {}

RECURSIVE Concat(_)
Concat(seqs) == IF seqs = <<>> THEN <<>> ELSE Head(seqs) \o Concat(Tail(seqs))

\* sep.join(items): items is a sequence of strs, sep a token
RECURSIVE Join(_, _)
Join(sep, items) ==
    IF items = <<>> THEN <<>>
    ELSE IF Len(items) = 1 THEN Head(items)
    ELSE Head(items) \o <<sep>> \o Join(sep, Tail(items))

\* text.replace(",", "")
RemoveCommas(text) == SelectSeq(text, LAMBDA tok : tok # ",")

\* str(e) of a request parameter value: int -> decimal digits, str -> itself
py_str(v) == IF v.t = "int" THEN <<ToString(v.n)>> ELSE v.s

\* dict helpers (insertion-ordered dict = sequence of entries)
Entry(k, v) == [k |-> k, v |-> v]
Keys(d) == {d[i].k : i \in DOMAIN d}
Values(d) == [i \in DOMAIN d |-> d[i].v]
Get(d, k) == (CHOOSE i \in DOMAIN d : d[i].k = k)
Item(d, k) == d[Get(d, k)].v

\* --------------------------------------------------------------------------
\* File formats (file_format.py / api.py)
\* --------------------------------------------------------------------------
FileFormat(container, codec) == [container |-> container, codec |-> codec]

\* mutant: flac-mp4 taken for a FLAC container
FILE_FORMAT_MAPPING_FlacMp4AsFlac ==
    << Entry(<<"flac">>, FileFormat("FLAC", "FLAC")),
       Entry(<<"flac-mp4">>, FileFormat("FLAC", "FLAC")),
       Entry(<<"mp3">>, FileFormat("MP3", "MP3")),
       Entry(<<"aac">>, FileFormat("MP4", "AAC")),
       Entry(<<"he-aac">>, FileFormat("MP4", "AAC")),
       Entry(<<"aac-mp4">>, FileFormat("MP4", "AAC")),
       Entry(<<"he-aac-mp4">>, FileFormat("MP4", "AAC")) >>

FILE_FORMAT_MAPPING ==
    << Entry(<<"flac">>, FileFormat("FLAC", "FLAC")),
       Entry(<<"flac-mp4">>, FileFormat("MP4", "FLAC")),
       Entry(<<"mp3">>, FileFormat("MP3", "MP3")),
       Entry(<<"aac">>, FileFormat("MP4", "AAC")),
       Entry(<<"he-aac">>, FileFormat("MP4", "AAC")),
       Entry(<<"aac-mp4">>, FileFormat("MP4", "AAC")),
       Entry(<<"he-aac-mp4">>, FileFormat("MP4", "AAC")) >>

\* FILE_FORMAT_MAPPING.keys(), in insertion order
FILE_FORMAT_KEYS == [i \in DOMAIN FILE_FORMAT_MAPPING |-> FILE_FORMAT_MAPPING[i].k]

\* mutant: FILE_FORMAT_MAPPING.get(codec, <mp3>) instead of the subscript
FileFormatLookup_Default(codec) ==
    IF codec \in Keys(FILE_FORMAT_MAPPING)
    THEN Ok(Item(FILE_FORMAT_MAPPING, codec))
    ELSE Ok(FileFormat("MP3", "MP3"))

\* FILE_FORMAT_MAPPING[codec]: KeyError for a string that is no key
FileFormatLookup(codec) ==
    IF codec \in Keys(FILE_FORMAT_MAPPING)
    THEN Ok(Item(FILE_FORMAT_MAPPING, codec))
    ELSE Raise("KeyError")

\* ApiTrackQuality
ApiTrackQuality == [LOW |-> <<"lq">>, NORMAL |-> <<"nq">>, LOSSLESS |-> <<"lossless">>]

\* --------------------------------------------------------------------------
\* Request signing (request_signing.py, api.py)
\* --------------------------------------------------------------------------
SIGN_KEYS == <<"ts", "trackId", "quality", "codecs", "transports">>

\* hmac.new(DEFAULT_SIGN_KEY, msg, sha256).digest(): kept symbolic, a value
\* determined by the key and the message and nothing else
HmacSha256(msg) == [alg |-> "HMAC-SHA256", key |-> "DEFAULT_SIGN_KEY", msg |-> msg]

\* base64.b64encode(digest).decode()[:-1]: the encoding without its last
\* character, a value determined by the digest
Base64CutLast(digest) == [b64_cut_of |-> digest]

\* the message sign_params feeds to HMAC: str() of every value of the dict in
\* the dict's own (insertion) order, concatenated, commas removed
SerializeParams(p) ==
    RemoveCommas(Concat([i \in DOMAIN p |-> py_str(Values(p)[i])]))

sign_params(p) ==
    << Entry("ts", Item(p, "ts")),
       Entry("trackId", Item(p, "trackId")),
       Entry("quality", Item(p, "quality")),
       Entry("codecs", Item(p, "codecs")),
       Entry("transports", Item(p, "transports")),
       Entry("sign", Base64CutLast(HmacSha256(SerializeParams(p)))) >>

\* --------------------------------------------------------------------------
\* Track decryptor (downloader/decrypt.py, download_track.py, api.py)
\* --------------------------------------------------------------------------
ByteBits == 8
ByteMod == 256
AES_BLOCK_SIZE == 16

HexDigits == <<"0", "1", "2", "3", "4", "5", "6", "7", "8", "9",
               "a", "b", "c", "d", "e", "f">>
HexUpper == <<"0", "1", "2", "3", "4", "5", "6", "7", "8", "9",
              "A", "B", "C", "D", "E", "F">>
IsHex(c) == \E i \in 1..16 : HexDigits[i] = c \/ HexUpper[i] = c
HexVal(c) == (CHOOSE i \in 1..16 : HexDigits[i] = c \/ HexUpper[i] = c) - 1

\* bytes.fromhex(key): ValueError unless an even number of hex digits
FromHex(key) ==
    IF Len(key) % 2 # 0 \/ \E i \in DOMAIN key : ~IsHex(key[i])
    THEN Raise("ValueError")
    ELSE Ok([i \in 1..(Len(key) \div 2) |->
                16 * HexVal(key[2 * i - 1]) + HexVal(key[2 * i])])

\* a ^ b on n-bit integers
RECURSIVE XorBits(_, _, _)
XorBits(a, b, n) ==
    IF n = 0 THEN 0
    ELSE (((a % 2) + (b % 2)) % 2) + 2 * XorBits(a \div 2, b \div 2, n - 1)

\* mutant: the keystream is added instead of xored
AddByte(a, b) == (a + b) % ByteMod

XorByte(a, b) == XorBits(a, b, ByteBits)

\* Byte j (from 0) of the AES encryption under key bytes kb of the counter
\* block nonce (12 zero bytes) || counter (4 bytes, big endian).  The block
\* cipher itself is replaced by a fixed mixing function of key, counter and
\* position; the CTR construction around it is the library's.
AesBlockByte(kb, counter, j) ==
    (7 * kb[(j % Len(kb)) + 1] + kb[((j + 5) % Len(kb)) + 1]
        + 13 * counter + 3 * j + 99) % ByteMod

\* keystream byte for the data byte at offset off (from 0): the counter starts
\* at 0 for every call and advances once per 16-byte block
KeystreamByte(kb, off) ==
    AesBlockByte(kb, off \div AES_BLOCK_SIZE, off % AES_BLOCK_SIZE)

\* AES.new(key=..., nonce=bytes(12), mode=MODE_CTR).decrypt(data)
AesCtr(kb, data) ==
    [i \in 1..Len(data) |-> XorByte(data[i], KeystreamByte(kb, i - 1))]

decrypt_data(data, key) ==
    LET kb == FromHex(key) IN
    IF ~kb.ok THEN kb
    ELSE IF Len(kb.val) \notin {16, 24, 32} THEN Raise("ValueError")
    ELSE Ok(AesCtr(kb.val, data))

\* --------------------------------------------------------------------------
\* Download-info resolver (track_info/fetch.py, api.py)
\* --------------------------------------------------------------------------
\* TrackInfoRequestParams / toJsonType: the dict in its literal order
TrackInfoRequestParams(ts, trackId, quality, codecs, transports) ==
    << Entry("ts", JInt(ts)),
       Entry("trackId", JInt(trackId)),
       Entry("quality", JStr(quality)),
       Entry("codecs", JStr(codecs)),
       Entry("transports", JStr(transports)) >>

Has(d, k) == k \in DOMAIN d.d
IsT(d, k, t) == Has(d, k) /\ d.d[k].t = t

\* _RawTrackInfoResponse.model_validate(resp)
ModelValidate(resp) ==
    IF resp.t = "dict" /\ IsT(resp, "download_info", "dict")
       /\ LET di == resp.d["download_info"] IN
            /\ IsT(di, "quality", "str")
            /\ IsT(di, "codec", "str")
            /\ IsT(di, "urls", "list")
            /\ IsT(di, "bitrate", "int")
            /\ (Has(di, "key") => di.d["key"].t \in {"str", "null"})
    THEN LET di == resp.d["download_info"] IN
         Ok([quality |-> di.d["quality"].s,
             codec |-> di.d["codec"].s,
             urls |-> di.d["urls"].l,
             bitrate |-> di.d["bitrate"].n,
             key |-> IF Has(di, "key") THEN di.d["key"] ELSE JNull])
    ELSE Raise("ValidationError")

\* the query get_download_info sends
DownloadInfoRequest(ts, trackId, quality) ==
    sign_params(TrackInfoRequestParams(ts, trackId, quality,
                                       Join(",", FILE_FORMAT_KEYS), <<"encraw">>))

\* what get_download_info makes of the response
DownloadInfoResult(resp) ==
    LET parsed_resp == ModelValidate(resp) IN
    IF ~parsed_resp.ok THEN parsed_resp
    ELSE LET download_info == parsed_resp.val
             ff == FileFormatLookup(download_info.codec) IN
         IF ~ff.ok THEN ff
         ELSE Ok([quality |-> download_info.quality,
                  file_format |-> ff.val,
                  urls |-> download_info.urls,
                  bitrate |-> download_info.bitrate,
                  decryption_key |-> IF Truthy(download_info.key)
                                     THEN download_info.key.s ELSE <<>>])

\* mutant: the LOW branch is missing, quality 0 falls to the default
ApiQualityOf_NoLow(quality) ==
    IF quality = 1 THEN ApiTrackQuality.NORMAL
    ELSE IF quality = 2 THEN ApiTrackQuality.LOSSLESS
    ELSE ApiTrackQuality.NORMAL

\* CoreTrackQuality -> ApiTrackQuality (to_downloadable_track)
ApiQualityOf(quality) ==
    IF quality = 0 THEN ApiTrackQuality.LOW
    ELSE IF quality = 1 THEN ApiTrackQuality.NORMAL
    ELSE IF quality = 2 THEN ApiTrackQuality.LOSSLESS
    ELSE ApiTrackQuality.NORMAL

\* mutant: an MP4 container is written as .mp4
SuffixOf_Mp4(container) ==
    IF container = "MP3" THEN Ok(".mp3")
    ELSE IF container = "MP4" THEN Ok(".mp4")
    ELSE IF container = "FLAC" THEN Ok(".flac")
    ELSE Raise("RuntimeError")

\* suffix chosen from the container (to_downloadable_track)
SuffixOf(container) ==
    IF container = "MP3" THEN Ok(".mp3")
    ELSE IF container = "MP4" THEN Ok(".m4a")
    ELSE IF container = "FLAC" THEN Ok(".flac")
    ELSE Raise("RuntimeError")

BASE_PATH == <<"Artist", "/", "Album", "/", "01 - Title">>

\* to_downloadable_track: target_path = str(base_path) + suffix
to_downloadable_track(resp, base_path) ==
    LET di == DownloadInfoResult(resp) IN
    IF ~di.ok THEN di
    ELSE LET suffix == SuffixOf(di.val.file_format.container) IN
         IF ~suffix.ok THEN suffix
         ELSE Ok([download_info |-> di.val, path |-> base_path \o <<suffix.val>>])

DownloadableTrack(resp) == to_downloadable_track(resp, BASE_PATH)

\* mutant: the payload is decrypted whatever the key
DownloadTrackResult_AlwaysDecrypt(download_info, data) ==
    decrypt_data(data, download_info.decryption_key)

\* download_track: data is what client.request.retrieve(url) returned
DownloadTrackResult(download_info, data) ==
    IF download_info.decryption_key # <<>>
    THEN decrypt_data(data, download_info.decryption_key)
    ELSE Ok(data)

\* --------------------------------------------------------------------------
\* Track model normaliser (ym_api/models.py, main.py)
\* --------------------------------------------------------------------------
\* data[k] of a JSON object: KeyError when the key is missing
Subscript(data, k) == IF Has(data, k) THEN Ok(data.d[k]) ELSE Raise("KeyError")

\* data.get(k, default)
DictGet(data, k, default) == IF Has(data, k) THEN data.d[k] ELSE default

\* mutant: the version is left out of the title
parse_title_NoVersion(data) ==
    IF ~Has(data, "title") THEN Raise("KeyError") ELSE Ok(data.d["title"].s)

\* parse_title
parse_title(data) ==
    IF ~Has(data, "title") THEN Raise("KeyError")
    ELSE LET title == data.d["title"].s
             version == DictGet(data, "version", JNull) IN
         IF Truthy(version)
         THEN Ok(title \o <<" (">> \o version.s \o <<")">>)
         ELSE Ok(title)

\* BasicArtistInfo.from_json
BasicArtistInfo(data) ==
    IF ~Has(data, "id") \/ ~Has(data, "name") THEN Raise("KeyError")
    ELSE Ok([t |-> "artist", id |-> data.d["id"], name |-> data.d["name"].s])

\* the elements of a decomposed list that parse_artists appends
DictsOf(decomposed) == SelectSeq(decomposed, LAMBDA e : e.t = "dict")

\* mutant: the artist objects of decomposed are put before their entry
RECURSIVE CollectArtists_DecomposedFirst(_)
CollectArtists_DecomposedFirst(data) ==
    IF data = <<>> THEN <<>>
    ELSE LET artist == Head(data)
             decomposed == DictGet(artist, "decomposed", JNull) IN
         (IF Truthy(decomposed) THEN DictsOf(decomposed.l) ELSE <<>>)
         \o <<artist>>
         \o CollectArtists_DecomposedFirst(Tail(data))

\* parse_artists, first loop: every entry, then the dicts of its decomposed
RECURSIVE CollectArtists(_)
CollectArtists(data) ==
    IF data = <<>> THEN <<>>
    ELSE LET artist == Head(data)
             decomposed == DictGet(artist, "decomposed", JNull) IN
         <<artist>>
         \o (IF Truthy(decomposed) THEN DictsOf(decomposed.l) ELSE <<>>)
         \o CollectArtists(Tail(data))

\* parse_artists: the list comprehension raises at the first artist dict
\* that lacks id or name
parse_artists(data) ==
    LET artists == CollectArtists(data)
        infos == [i \in DOMAIN artists |-> BasicArtistInfo(artists[i])] IN
    IF \E i \in DOMAIN infos : ~infos[i].ok THEN Raise("KeyError")
    ELSE Ok([i \in DOMAIN infos |-> infos[i].val])

\* BasicAlbumInfo.from_json
BasicAlbumInfo(data) ==
    IF ~Has(data, "artists") THEN Raise("KeyError")
    ELSE LET artists == parse_artists(data.d["artists"].l)
             title == parse_title(data)
             release_date == DictGet(data, "releaseDate", JNull) IN
         IF ~artists.ok THEN artists
         ELSE IF ~title.ok THEN title
         ELSE IF ~Has(data, "id") \/ ~Has(data, "metaType") THEN Raise("KeyError")
         ELSE Ok([t |-> "album",
                  id |-> data.d["id"],
                  title |-> title.val,
                  year |-> DictGet(data, "year", JNull),
                  meta_type |-> data.d["metaType"].s,
                  artists |-> artists.val,
                  release_date |-> IF Truthy(release_date)
                                   THEN [t |-> "datetime", iso |-> release_date.s]
                                   ELSE release_date])

\* mutant: id and title of the synthesized album swapped
SynthesizedAlbum_Swapped(tid, title, artists) ==
    [t |-> "album",
     id |-> JStr(title),
     title |-> tid,
     year |-> JNull,
     meta_type |-> <<"music">>,
     artists |-> artists,
     release_date |-> JNull]

\* the album BasicTrackInfo.from_json builds when albums is empty
SynthesizedAlbum(tid, title, artists) ==
    [t |-> "album",
     id |-> JStr(tid),
     title |-> title,
     year |-> JNull,
     meta_type |-> <<"music">>,
     artists |-> artists,
     release_date |-> JNull]

\* CoverInfo.from_json: models.py maps "" to None as well, main.py does not
CoverInfo(data, variant) ==
    LET og_image == DictGet(data, "ogImage", JNull) IN
    IF og_image.t = "null" \/ (variant = "models" /\ og_image.s = <<>>)
    THEN [cover_url_template |-> JNull]
    ELSE [cover_url_template |-> JStr(<<"https://">> \o og_image.s)]

DEFAULT_TRACK_POSITION == JDict([index |-> JInt(1), volume |-> JInt(1)])

\* data.get("lyricsInfo", {}).get("hasAvailableTextLyrics", False)
HasLyrics(data) ==
    LET lyrics_info == DictGet(data, "lyricsInfo", JDict(<<>>)) IN
    IF lyrics_info.t # "dict" THEN Raise("AttributeError")
    ELSE Ok(DictGet(lyrics_info, "hasAvailableTextLyrics", JBool(FALSE)))

\* the statements of BasicTrackInfo.from_json after the available check, from
\* the album on (id, title, albums and artists already read)
TrackFromAlbum(data, variant, tid, title, artists) ==
    LET albums_data == data.d["albums"].l
        album == IF Len(albums_data) > 0
                 THEN BasicAlbumInfo(albums_data[1])
                 ELSE Ok(SynthesizedAlbum(tid, title, artists))
        track_position == IF Len(albums_data) > 0
                          THEN DictGet(albums_data[1], "trackPosition",
                                       DEFAULT_TRACK_POSITION)
                          ELSE DEFAULT_TRACK_POSITION
        has_lyrics == HasLyrics(data) IN
    IF ~album.ok THEN album
    ELSE IF ~has_lyrics.ok THEN has_lyrics
    ELSE IF ~Has(data, "realId") THEN Raise("KeyError")
    ELSE IF track_position.t # "dict" THEN Raise("TypeError")
    ELSE IF ~Has(track_position, "index") \/ ~Has(track_position, "volume")
         THEN Raise("KeyError")
    ELSE Ok([t |-> "track",
             title |-> title,
             id |-> tid,
             real_id |-> data.d["realId"],
             number |-> track_position.d["index"],
             disc_number |-> track_position.d["volume"],
             artists |-> artists,
             album |-> album.val,
             has_lyrics |-> has_lyrics.val,
             cover_info |-> CoverInfo(data, variant)])

\* the statements of BasicTrackInfo.from_json, in the order they run; this is
\* the whole of main.py's from_json and the try block of models.py's
TrackBody(data, variant) ==
    IF ~Has(data, "available") THEN Raise("KeyError")
    ELSE IF ~Truthy(data.d["available"]) THEN Ok(JNull)
    ELSE IF ~Has(data, "id") THEN Raise("KeyError")
    ELSE LET title == parse_title(data) IN
         IF ~title.ok THEN title
         ELSE IF ~Has(data, "albums") \/ ~Has(data, "artists") THEN Raise("KeyError")
         ELSE LET artists == parse_artists(data.d["artists"].l) IN
              IF ~artists.ok THEN artists
              ELSE TrackFromAlbum(data, variant, py_str(data.d["id"]),
                                  title.val, artists.val)

\* main.py: BasicTrackInfo.from_json (exceptions propagate)
BasicTrackInfo_main(data) == TrackBody(data, "main")

\* except Exception: return None
CatchAll(body) == IF body.ok THEN body ELSE Ok(JNull)

\* except Exception: logger.error(traceback.format_exc())
LoggedErrors(body) == IF body.ok THEN 0 ELSE 1

\* models.py: BasicTrackInfo.from_json (try: ... except Exception: log, None)
BasicTrackInfo_models(data) == CatchAll(TrackBody(data, "models"))

\* models.py: the logger.error calls of one from_json call
TrackLogged(data) == LoggedErrors(TrackBody(data, "models"))

\* map(BasicTrackInfo.from_json, tracks) as the variant's from_json does it
TrackOutcomes(tracks, variant) ==
    [i \in DOMAIN tracks |->
        IF variant = "models" THEN BasicTrackInfo_models(tracks[i])
        ELSE BasicTrackInfo_main(tracks[i])]

\* [t for t in outs if t is not None]: the first exception of a from_json
\* call ends the comprehension
KeepParsed(outs) ==
    IF \E i \in DOMAIN outs : ~outs[i].ok
    THEN outs[CHOOSE i \in DOMAIN outs :
                ~outs[i].ok /\ \A j \in 1..(i - 1) : outs[j].ok]
    ELSE Ok(Values([i \in DOMAIN SelectSeq(outs, LAMBDA o : o.val.t # "null") |->
                      [v |-> SelectSeq(outs, LAMBDA o : o.val.t # "null")[i].val]]))

ParseTracks(tracks, variant) == KeepParsed(TrackOutcomes(tracks, variant))

\* logger.error calls made while the track list is parsed (models.py)
RECURSIVE TracksLogged(_)
TracksLogged(tracks) ==
    IF tracks = <<>> THEN 0
    ELSE TrackLogged(Head(tracks)) + TracksLogged(Tail(tracks))

\* [t for v in data.get("volumes", []) for t in v]
VolumeTracks(data) ==
    Concat([i \in DOMAIN DictGet(data, "volumes", JList(<<>>)).l |->
               DictGet(data, "volumes", JList(<<>>)).l[i].l])

\* cls(**base.__dict__, tracks=tracks)
FullAlbumOf(base, tracks) ==
    IF ~base.ok THEN base
    ELSE IF ~tracks.ok THEN tracks
    ELSE Ok([t |-> "full_album", base |-> base.val, tracks |-> tracks.val])

\* FullAlbumInfo.from_json
FullAlbumInfo(data, variant) ==
    FullAlbumOf(BasicAlbumInfo(data), ParseTracks(VolumeTracks(data), variant))

\* [a for a in map(BasicAlbumInfo.from_json, albums_data) if a is not None]
ParseAlbums(albums_data) ==
    KeepParsed([i \in DOMAIN albums_data |-> BasicAlbumInfo(albums_data[i])])

\* cls(**base.__dict__, cover_info=cover_info, albums=albums)
FullArtistOf(base, albums, cover_info) ==
    IF ~base.ok THEN base
    ELSE IF ~albums.ok THEN albums
    ELSE Ok([t |-> "full_artist", base |-> base.val, albums |-> albums.val,
             cover_info |-> cover_info])

\* FullArtistInfo.from_json
FullArtistInfo(data, variant) ==
    IF ~Has(data, "artist") THEN Raise("KeyError")
    ELSE FullArtistOf(BasicArtistInfo(data.d["artist"]),
                      ParseAlbums(DictGet(data, "albums", JList(<<>>)).l),
                      CoverInfo(data, variant))

\* tracks = [t for t in map(from_json, raw_tracks) if t is not None]
PlaylistOf(tracks) ==
    IF ~tracks.ok THEN tracks ELSE Ok([t |-> "playlist", tracks |-> tracks.val])

\* get_playlist, after the request
Playlist(data, variant) ==
    IF ~Has(data, "playlist") THEN Raise("KeyError")
    ELSE PlaylistOf(ParseTracks(
             DictGet(data.d["playlist"], "tracks", JList(<<>>)).l, variant))

\* --------------------------------------------------------------------------
\* Retry wrapper (core.py: init_client) and the legacy response hook (main.py)
\* --------------------------------------------------------------------------
\* what the service does with the n-th call of a request: the first
\* net.errors calls end in a connection error, every later one gets net.then
Answer(net, n) == IF n <= net.errors THEN "connection_error" ELSE net.then

\* client.request._request_wrapper of yandex_music: a 2xx answer is returned,
\* 401/403 raise UnauthorizedError, connection errors and every other status
\* (429 and 5xx among them) raise NetworkError
original_wrapper(answer) ==
    CASE answer = "ok" -> Ok("response")
      [] answer = "unauthorized" -> Raise("UnauthorizedError")
      [] OTHER -> Raise("NetworkError")

\* max_try_count == 0 or try_count < max_try_count
MayRetry(max, count) == max = 0 \/ count < max

\* mutant: the delay is slept twice
SleepFor_Twice(delay) == delay + delay

\* time.sleep(retry_delay)
SleepFor(delay) == delay

\* Session.get of requests with the response hook of main.py: a connection
\* error is raised by requests, a response that is not ok makes the hook
\* print two lines and exit
LegacyAnswer(answer) ==
    CASE answer = "ok" -> Ok("response")
      [] answer = "connection_error" -> Raise("ConnectionError")
      [] OTHER -> Raise("SystemExit")

\* --------------------------------------------------------------------------
\* Candidate selector of the legacy protocol (spec 4.3)
\* --------------------------------------------------------------------------
Candidate(codec, bitrate) == [codec |-> codec, bitrate |-> bitrate]

\* filter candidates to codecs {mp3, aac}
KeepMp3Aac(cands) == SelectSeq(cands, LAMBDA c : c.codec \in {"mp3", "aac"})

\* mutant: aac is weighted 0.5 at every bitrate
EffectiveBitrate2_NoBoost(c) ==
    IF c.codec = "aac" THEN c.bitrate ELSE 2 * c.bitrate

\* twice the comparison key, to stay in the integers:
\* bitrate * (1.5 if aac and bitrate > 192, 0.5 if aac otherwise, 1.0)
EffectiveBitrate2(c) ==
    IF c.codec = "aac" /\ c.bitrate > 192 THEN 3 * c.bitrate
    ELSE IF c.codec = "aac" THEN c.bitrate
    ELSE 2 * c.bitrate

\* c put into a list sorted by key, behind the elements whose key is not larger
RECURSIVE InsertByKey(_, _)
InsertByKey(c, sorted) ==
    IF sorted = <<>> THEN <<c>>
    ELSE IF EffectiveBitrate2(Head(sorted)) <= EffectiveBitrate2(c)
    THEN <<Head(sorted)>> \o InsertByKey(c, Tail(sorted))
    ELSE <<c>> \o sorted

\* sort ascending by the key; equal keys keep their order
RECURSIVE SortByKey(_)
SortByKey(cands) ==
    IF cands = <<>> THEN <<>>
    ELSE InsertByKey(cands[Len(cands)], SortByKey(SubSeq(cands, 1, Len(cands) - 1)))

\* the last of the sorted candidates for a best-quality request, the first
\* for a lowest-quality one; nothing to pick from an empty list
SelectCandidate(cands, want_best) ==
    LET sorted == SortByKey(KeepMp3Aac(cands)) IN
    IF sorted = <<>> THEN Raise("IndexError")
    ELSE Ok(IF want_best THEN sorted[Len(sorted)] ELSE sorted[1])

\* --------------------------------------------------------------------------
\* The track loop (cli/main.py: main; core.py: download_track)
\* --------------------------------------------------------------------------
MAGIC_BYTES ==
    << [mime_type |-> "image/jpeg", magic |-> <<255, 216, 255>>],
       [mime_type |-> "image/png", magic |-> <<137, 80, 78, 71, 13, 10, 26, 10>>] >>

\* data.startswith(prefix)
StartsWith(data, prefix) ==
    Len(data) >= Len(prefix) /\ SubSeq(data, 1, Len(prefix)) = prefix

\* guess_mime_type: the first entry of MAGIC_BYTES that data starts with
guess_mime_type(data) ==
    IF \E i \in DOMAIN MAGIC_BYTES : StartsWith(data, MAGIC_BYTES[i].magic)
    THEN JStr(MAGIC_BYTES[CHOOSE i \in DOMAIN MAGIC_BYTES :
                  /\ StartsWith(data, MAGIC_BYTES[i].magic)
                  /\ \A j \in 1..(i - 1) : ~StartsWith(data, MAGIC_BYTES[j].magic)].mime_type)
    ELSE JNull

Message(kind, about) == [kind |-> kind, about |-> about]

Digits == <<"0", "1", "2", "3", "4", "5", "6", "7", "8", "9">>
DigitValue(c) == (CHOOSE i \in DOMAIN Digits : Digits[i] = c) - 1

\* int(text) for a str of decimal digits
RECURSIVE int(_)
int(text) ==
    IF Len(text) = 1 THEN DigitValue(text[1])
    ELSE 10 * int(SubSeq(text, 1, Len(text) - 1)) + DigitValue(text[Len(text)])

\* mutant: any artist of the album counts, not only the first
filter_album_AnyArtist(album, options) ==
    IF album.id = 0 \/ ~album.available
    THEN [pass |-> FALSE, printed |-> <<Message("album_unavailable", album.id)>>]
    ELSE IF options.only_music /\ album.meta_type # "music"
    THEN [pass |-> FALSE, printed |-> <<Message("album_not_music", album.id)>>]
    ELSE IF options.stick_to_artist
            /\ \A i \in DOMAIN album.artists : album.artists[i] # int(options.artist_id)
    THEN [pass |-> FALSE, printed |-> <<Message("album_stick_to_artist", album.id)>>]
    ELSE [pass |-> TRUE, printed |-> <<>>]

\* filter_album: TRUE for an album to download, else the line it prints
filter_album(album, options) ==
    IF album.id = 0 \/ ~album.available
    THEN [pass |-> FALSE, printed |-> <<Message("album_unavailable", album.id)>>]
    ELSE IF options.only_music /\ album.meta_type # "music"
    THEN [pass |-> FALSE, printed |-> <<Message("album_not_music", album.id)>>]
    ELSE IF options.stick_to_artist /\ album.artists[1] # int(options.artist_id)
    THEN [pass |-> FALSE, printed |-> <<Message("album_stick_to_artist", album.id)>>]
    ELSE [pass |-> TRUE, printed |-> <<>>]

\* covers_cache.get(album_id)
CacheGet(cache, album_id) ==
    IF album_id \in DOMAIN cache THEN cache[album_id] ELSE JNull

\* covers_cache[album_id] = cover
CacheSet(cache, album_id, cover) ==
    [k \in DOMAIN cache \cup {album_id} |-> IF k = album_id THEN cover ELSE cache[k]]

\* album = track.albums[0] if track.albums else Album(); the key is album.id
\* (0 stands for None)
CoverKey(track) == track.album.id

\* download_track, the cover part: the cover handed to set_tags (or the
\* exception), the album ids of the covers fetched from the network, the
\* cache afterwards
CoverPart(track, embed_cover, cache) ==
    IF track.cover_uri = JNull
    THEN [result |-> Ok(JNull), fetches |-> <<>>, cache |-> cache]
    ELSE LET cover_bytes == track.cover_bytes
             mime_type == guess_mime_type(cover_bytes)
             album_cover == [data |-> cover_bytes, mime_type |-> mime_type] IN
         IF mime_type = JNull
         THEN [result |-> Raise("RuntimeError"), fetches |-> <<CoverKey(track)>>,
               cache |-> cache]
         ELSE IF ~embed_cover
         THEN [result |-> Ok(JNull), fetches |-> <<CoverKey(track)>>, cache |-> cache]
         ELSE IF CoverKey(track) # 0 /\ CacheGet(cache, CoverKey(track)) # JNull
         THEN [result |-> Ok(CacheGet(cache, CoverKey(track))),
               fetches |-> <<CoverKey(track)>>, cache |-> cache]
         ELSE IF CoverKey(track) # 0
         THEN [result |-> Ok(album_cover), fetches |-> <<CoverKey(track)>>,
               cache |-> CacheSet(cache, CoverKey(track), album_cover)]
         ELSE [result |-> Ok(JNull), fetches |-> <<CoverKey(track)>>, cache |-> cache]

\* main.py, the cover part of the loop body: covers.get(album.id) is tried
\* first and counts as a hit only for bytes that are not empty
LegacyCoverPart(track, embed_cover, cache) ==
    IF track.cover_uri = JNull
    THEN [result |-> Ok(JNull), fetches |-> <<>>, cache |-> cache]
    ELSE IF ~embed_cover
    THEN [result |-> Ok(JNull), fetches |-> <<>>, cache |-> cache]
    ELSE IF CacheGet(cache, track.album.id) # JNull
            /\ CacheGet(cache, track.album.id) # <<>>
    THEN [result |-> Ok(CacheGet(cache, track.album.id)), fetches |-> <<>>,
          cache |-> cache]
    ELSE [result |-> Ok(track.cover_bytes), fetches |-> <<track.album.id>>,
          cache |-> CacheSet(cache, track.album.id, track.cover_bytes)]

\* mutant: the check does not look for FLAC files
AUDIO_FILE_SUFFIXES_NoFlac == {".mp3", ".m4a"}

AUDIO_FILE_SUFFIXES == {".mp3", ".flac", ".m4a"}

\* any(Path(str(save_path) + s).is_file() for s in AUDIO_FILE_SUFFIXES)
FileExists(save_path, on_disk) ==
    \E s \in AUDIO_FILE_SUFFIXES : (save_path \o <<s>>) \in on_disk

\* main.py: save_path.is_file(), save_path being the path prepare_track_path
\* ended with '.mp3'
LegacyFileExists(save_path, on_disk) == (save_path \o <<".mp3">>) \in on_disk

\* --------------------------------------------------------------------------
\* The identifier of the run (cli/main.py: main; cli/filename_regexps.py)
\* --------------------------------------------------------------------------
\* \d
IsDigit(c) == \E i \in DOMAIN Digits : Digits[i] = c

\* \d+ matched greedily from position i: the position of its last digit
\* (i - 1 when text[i] is no digit)
RECURSIVE DigitsEnd(_, _)
DigitsEnd(text, i) ==
    IF i <= Len(text) /\ IsDigit(text[i]) THEN DigitsEnd(text, i + 1) ELSE i - 1

\* the literal stands in text at position i
OccursAt(text, literal, i) ==
    /\ i + Len(literal) - 1 <= Len(text)
    /\ SubSeq(text, i, i + Len(literal) - 1) = literal

MinOf(set) == CHOOSE x \in set : \A y \in set : x <= y
MaxOf(set) == CHOOSE x \in set : \A y \in set : x >= y

\* a compiled pattern <literal>(\d+), with $ after it when anchored
TRACK_RE == [literal |-> <<"track", "/">>, anchored |-> FALSE]
ALBUM_RE == [literal |-> <<"album", "/">>, anchored |-> TRUE]
ARTIST_RE == [literal |-> <<"artist", "/">>, anchored |-> TRUE]

\* the positions at which the pattern matches
MatchStarts(re, text) ==
    {i \in 1..Len(text) :
        /\ OccursAt(text, re.literal, i)
        /\ DigitsEnd(text, i + Len(re.literal)) >= i + Len(re.literal)
        /\ re.anchored => DigitsEnd(text, i + Len(re.literal)) = Len(text)}

\* group 1 of the match that starts at position i
GroupAt(re, text, i) ==
    SubSeq(text, i + Len(re.literal), DigitsEnd(text, i + Len(re.literal)))

\* mutant: the last match of the pattern instead of the first
search_Last(re, text) ==
    IF MatchStarts(re, text) = {} THEN JNull
    ELSE JStr(GroupAt(re, text, MaxOf(MatchStarts(re, text))))

\* re.search(text): group 1 of the leftmost match, None without a match
search(re, text) ==
    IF MatchStarts(re, text) = {} THEN JNull
    ELSE JStr(GroupAt(re, text, MinOf(MatchStarts(re, text))))

\* [\w\-._@]: among the characters of a URL path, all but these
IsOwnerChar(c) == c \notin {"/", "~", " "}

PLAYLISTS == <<"/", "playlists", "/">>

\* PLAYLIST_RE matches from position i: ([\w\-._@]+)/playlists/(\d+)$; k is
\* the last position of group 1
PlaylistMatch(text, i, k) ==
    /\ \A j \in i..k : IsOwnerChar(text[j])
    /\ OccursAt(text, PLAYLISTS, k + 1)
    /\ DigitsEnd(text, k + 1 + Len(PLAYLISTS)) >= k + 1 + Len(PLAYLISTS)
    /\ DigitsEnd(text, k + 1 + Len(PLAYLISTS)) = Len(text)

\* PLAYLIST_RE.search(path) and match.group(1) + "/" + match.group(2)
PlaylistSearch(text) ==
    LET starts == {i \in 1..Len(text) : \E k \in i..Len(text) : PlaylistMatch(text, i, k)} IN
    IF starts = {} THEN JNull
    ELSE LET i == MinOf(starts)
             k == CHOOSE k \in i..Len(text) : PlaylistMatch(text, i, k) IN
         JStr(SubSeq(text, i, k) \o <<"/">>
              \o SubSeq(text, k + 1 + Len(PLAYLISTS), Len(text)))

NoIds == [artist_id |-> JNull, album_id |-> JNull, track_id |-> JNull, playlist_id |-> JNull]

\* "if args.url is not None": the identifier the path stands for, or the
\* return value 1
ResolveUrl(path) ==
    IF search(ARTIST_RE, path) # JNull
    THEN Ok([NoIds EXCEPT !.artist_id = search(ARTIST_RE, path)])
    ELSE IF search(ALBUM_RE, path) # JNull
    THEN Ok([NoIds EXCEPT !.album_id = search(ALBUM_RE, path)])
    ELSE IF search(TRACK_RE, path) # JNull
    THEN Ok([NoIds EXCEPT !.track_id = search(TRACK_RE, path)])
    ELSE IF PlaylistSearch(path) # JNull
    THEN Ok([NoIds EXCEPT !.playlist_id = PlaylistSearch(path)])
    ELSE Raise("return 1")

\* --------------------------------------------------------------------------
\* The albums of an artist (cli/main.py: albums_id_gen)
\* --------------------------------------------------------------------------
\* the for loop over albums_info.albums: every album goes through
\* filter_album; the album ids yielded, the albums filtered, the count left
RECURSIVE FilterPage(_, _, _)
FilterPage(albums, options, count) ==
    IF albums = <<>> THEN [filtered |-> <<>>, count |-> count]
    ELSE LET entry == Head(albums)
             pass == filter_album(entry.album, options).pass
             left == IF ~pass /\ entry.track_count # 0 /\ count # JNull
                     THEN JInt(count.n - entry.track_count) ELSE count
             rest == FilterPage(Tail(albums), options, left) IN
         [filtered |-> <<[album |-> entry.album, pass |-> pass]>> \o rest.filtered,
          count |-> rest.count]

\* mutant: one more page is asked for when the pages hold total exactly
HasNext_Inclusive(pager, next_page) == pager.per_page * next_page <= pager.total

\* "has_next = pager.per_page * page < pager.total"
HasNext(pager, next_page) == pager.per_page * next_page < pager.total

\* --------------------------------------------------------------------------
\* The tracks of a playlist (cli/main.py: playlist_tracks_gen)
\* --------------------------------------------------------------------------
FETCH_PAGE_SIZE == 10

\* mutant: the slice takes the element at its end as well
Slice_Inclusive(list, start, stop) ==
    SubSeq(list, start + 1, IF stop + 1 < Len(list) THEN stop + 1 ELSE Len(list))

\* list[start:stop] for 0 <= start <= stop
Slice(list, start, stop) ==
    SubSeq(list, start + 1, IF stop < Len(list) THEN stop ELSE Len(list))

\* --------------------------------------------------------------------------
\* Writing a file (core.py: write_via_temporary_file)
\* --------------------------------------------------------------------------
\* a file: whose bytes it holds, whether all of them, whether tags were set
File(bytes, complete, tagged) == [bytes |-> bytes, complete |-> complete, tagged |-> tagged]

\* mutant: the data is written at the target path itself
temporary_file_Target(target_path) == target_path

\* target_path.parent / TEMPORARY_FILE_NAME_TEMPLATE.format(sha256 of the name)
temporary_file(target_path) ==
    <<".yandex-music-downloader.", "sha256">> \o target_path \o <<".tmp">>

\* Path.write_bytes, Path.unlink and Path.rename on a directory, which is a
\* function from the names in it to files (JNull: no such file)
write_bytes(dir, path, file) == [dir EXCEPT ![path] = file]
unlink(dir, path) ==
    IF dir[path] = JNull THEN Raise("FileNotFoundError")
    ELSE Ok([dir EXCEPT ![path] = JNull])
rename(dir, from, to) ==
    [name \in DOMAIN dir |->
        IF name = to THEN dir[from] ELSE IF name = from THEN JNull ELSE dir[name]]

\* "except InterruptedError as e: temporary_file.unlink(); raise e" for an
\* exception raised in the try block: the directory and what the call raises
ExceptInterrupted(dir, temporary, exc) ==
    IF exc # "InterruptedError" THEN [dir |-> dir, raised |-> Raise(exc)]
    ELSE IF unlink(dir, temporary).ok
    THEN [dir |-> unlink(dir, temporary).val, raised |-> Raise(exc)]
    ELSE [dir |-> dir, raised |-> unlink(dir, temporary)]

\* --------------------------------------------------------------------------
\* The path of a track (core.py: prepare_base_path; main.py:
\* prepare_track_path)
\* --------------------------------------------------------------------------
\* str(n) of an int n >= 0, a token for every digit
RECURSIVE DecimalDigits(_)
DecimalDigits(n) ==
    IF n < 10 THEN <<Digits[n + 1]>>
    ELSE DecimalDigits(n \div 10) \o <<Digits[(n % 10) + 1]>>

\* str(replacement)
str(v) ==
    CASE v.t = "null" -> <<"None">>
      [] v.t = "int" -> DecimalDigits(v.n)
      [] v.t = "str" -> v.s

\* text.zfill(width)
RECURSIVE zfill(_, _)
zfill(text, width) == IF Len(text) >= width THEN text ELSE zfill(<<"0">> \o text, width)

\* full_title(obj)
full_title(obj) ==
    IF obj.title = JNull THEN <<>>
    ELSE IF Truthy(obj.version) THEN obj.title.s \o <<" ", "(">> \o obj.version.s \o <<")">>
    ELSE obj.title.s

\* text.replace(old, new)
RECURSIVE Replace(_, _, _)
Replace(text, old, new) ==
    IF \A i \in DOMAIN text : ~OccursAt(text, old, i) THEN text
    ELSE LET first == MinOf({i \in DOMAIN text : OccursAt(text, old, i)}) IN
         SubSeq(text, 1, first - 1) \o new
         \o Replace(SubSeq(text, first + Len(old), Len(text)), old, new)

\* a character outside [\w\-\'() ]: the tokens that are no word chunk, "-",
\* "'", "(", ")" or " "
Unclean(c) == c \in {".", "/", "\\", ":", "?"}

\* number of " " the text begins with and ends with
RECURSIVE LeadingSpaces(_)
LeadingSpaces(text) ==
    IF text # <<>> /\ Head(text) = " " THEN 1 + LeadingSpaces(Tail(text)) ELSE 0
RECURSIVE TrailingSpaces(_)
TrailingSpaces(text) ==
    IF text # <<>> /\ text[Len(text)] = " "
    THEN 1 + TrailingSpaces(SubSeq(text, 1, Len(text) - 1)) ELSE 0

\* SAFE_PATH_CLEAR_RE.sub("_", text), the pattern ([^\w\-\'() ]|^\s+|\s+$):
\* every unclean character becomes "_", so does the whitespace the text
\* begins with and the whitespace it ends with
SAFE_PATH_CLEAR_RE_sub(text) ==
    IF text # <<>> /\ LeadingSpaces(text) = Len(text) THEN <<"_">>
    ELSE (IF LeadingSpaces(text) > 0 THEN <<"_">> ELSE <<>>)
         \o [i \in 1..(Len(text) - LeadingSpaces(text) - TrailingSpaces(text)) |->
                IF Unclean(text[LeadingSpaces(text) + i]) THEN "_"
                ELSE text[LeadingSpaces(text) + i]]
         \o (IF TrailingSpaces(text) > 0 THEN <<"_">> ELSE <<>>)

\* a pattern <class>+ replaced by "_": every run of characters of the class
\* becomes one "_"
SubRuns(text, InClass(_)) ==
    LET marked == [i \in DOMAIN text |->
                      [c |-> IF InClass(text[i]) THEN "_" ELSE text[i],
                       in_run |-> i > 1 /\ InClass(text[i]) /\ InClass(text[i - 1])]]
        kept == SelectSeq(marked, LAMBDA m : ~m.in_run) IN
    [i \in DOMAIN kept |-> kept[i].c]

IsSeparator(c) == c \in {"/", "\\"}

\* UNSAFE_PATH_CLEAR_RE.sub("_", text), the pattern [/\\]+
UNSAFE_PATH_CLEAR_RE_sub(text) == SubRuns(text, IsSeparator)

\* main.py: FILENAME_CLEAR_RE.sub('_', text), the pattern [^\w\-\'() ]+
FILENAME_CLEAR_RE_sub(text) == SubRuns(text, Unclean)

\* the first element of a list, None for an empty one
FirstOrNone(list) == IF list = <<>> THEN JNull ELSE list[1]

\* repl_dict of prepare_base_path, in insertion order
repl_dict(track) ==
    LET album == FirstOrNone(track.albums)
        track_position == IF album = JNull THEN JNull ELSE album.track_position
        album_artist == IF album = JNull THEN JNull ELSE FirstOrNone(album.artists)
        track_artist == FirstOrNone(track.artists) IN
    << Entry(<<"#number", "-padded">>,
             IF track_position # JNull /\ album # JNull
             THEN JStr(zfill(str(JInt(track_position.index)), Len(str(album.track_count))))
             ELSE JNull),
       Entry(<<"#album", "-artist">>, IF album_artist # JNull THEN album_artist.name ELSE JNull),
       Entry(<<"#track", "-artist">>, IF track_artist # JNull THEN track_artist.name ELSE JNull),
       Entry(<<"#artist", "-id">>, IF track_artist # JNull THEN track_artist.id ELSE JNull),
       Entry(<<"#album", "-id">>, IF album # JNull THEN album.id ELSE JNull),
       Entry(<<"#track", "-id">>, track.id),
       Entry(<<"#number">>,
             IF track_position # JNull THEN JInt(track_position.index) ELSE JNull),
       Entry(<<"#title">>, JStr(full_title(track))),
       Entry(<<"#album">>, IF album # JNull THEN JStr(full_title(album)) ELSE JNull),
       Entry(<<"#year">>, IF album # JNull THEN album.year ELSE JNull) >>

\* repl_dict of prepare_track_path (main.py), in insertion order; the track
\* of main.py has one album, with artists
legacy_repl_dict(track) ==
    LET album == track.albums[1]
        artist == album.artists[1] IN
    << Entry(<<"#album", "-artist">>, album.artists[1].name),
       Entry(<<"#artist", "-id">>, artist.name),
       Entry(<<"#album", "-id">>, album.id),
       Entry(<<"#track", "-id">>, track.id),
       Entry(<<"#number">>, JInt(album.track_position.index)),
       Entry(<<"#artist">>, artist.name),
       Entry(<<"#title">>, track.title),
       Entry(<<"#album">>, album.title),
       Entry(<<"#year">>, album.year) >>

\* how a replacement is cleared: prepare_base_path by one of its two
\* patterns, prepare_track_path by FILENAME_CLEAR_RE or not at all
Clear(text, how) ==
    CASE how = "safe" -> SAFE_PATH_CLEAR_RE_sub(text)
      [] how = "unsafe" -> UNSAFE_PATH_CLEAR_RE_sub(text)
      [] how = "legacy" -> FILENAME_CLEAR_RE_sub(text)
      [] OTHER -> text

\* the text holds the token first at a place where rest does not follow it
OccursIn(text, first, rest) ==
    \E i \in DOMAIN text :
        OccursAt(text, first, i) /\ ~OccursAt(text, first \o rest, i)

\* "for placeholder, replacement in repl_dict.items()": the replacements made
\* one after the other
RECURSIVE ReplaceEach(_, _, _)
ReplaceEach(path_str, repl, how) ==
    IF repl = <<>> THEN path_str
    ELSE ReplaceEach(Replace(path_str, Head(repl).k, Clear(str(Head(repl).v), how)),
                     Tail(repl), how)

\* path_str.split("/")
RECURSIVE Split(_)
Split(path_str) ==
    IF \A i \in DOMAIN path_str : path_str[i] # "/" THEN <<path_str>>
    ELSE LET i == MinOf({j \in DOMAIN path_str : path_str[j] = "/"}) IN
         <<SubSeq(path_str, 1, i - 1)>> \o Split(SubSeq(path_str, i + 1, Len(path_str)))

\* Path(path_str).parts on POSIX: the root if the string begins with "/",
\* then the components that are neither empty nor "."
PathParts(path_str) ==
    (IF path_str # <<>> /\ Head(path_str) = "/" THEN << <<"/">> >> ELSE <<>>)
    \o SelectSeq(Split(path_str), LAMBDA part : part # <<>> /\ part # <<".">>)

\* 255 - max(len(suffix) for suffix in AUDIO_FILE_SUFFIXES), ".flac" being
\* the longest
MAX_FILE_NAME_LENGTH_WITHOUT_SUFFIX == 255 - 5

\* part[:MAX_FILE_NAME_LENGTH_WITHOUT_SUFFIX] for every part
TrimmedParts(parts) ==
    [i \in DOMAIN parts |->
        IF Len(parts[i]) <= MAX_FILE_NAME_LENGTH_WITHOUT_SUFFIX THEN parts[i]
        ELSE SubSeq(parts[i], 1, MAX_FILE_NAME_LENGTH_WITHOUT_SUFFIX)]

\* prepare_base_path: the string after the replacements and the parts of
\* the path returned
prepare_base_path(path_pattern_str, track, unsafe) ==
    LET path_str == ReplaceEach(path_pattern_str, repl_dict(track),
                                IF unsafe THEN "unsafe" ELSE "safe") IN
    [path_str |-> path_str, parts |-> TrimmedParts(PathParts(path_str))]

\* prepare_track_path (main.py)
prepare_track_path(path_pattern_str, prepare_path, track) ==
    LET path_str == ReplaceEach(path_pattern_str, legacy_repl_dict(track),
                                IF prepare_path THEN "legacy" ELSE "none")
                    \o <<".mp3">> IN
    [path_str |-> path_str, parts |-> PathParts(path_str)]

\* --------------------------------------------------------------------------
\* Bounds and input sets
\* --------------------------------------------------------------------------
MaxDataLen == 2      \* longest payload, in bytes
MaxArtists == 2      \* longest artist list handed to parse_artists
MaxEntries == 2      \* most track or album entries in one response
MaxTries == 3        \* largest --tries
MaxDelay == 2        \* largest --retry-delay, in seconds
MaxAlbums == 2       \* most albums in an artist listing
MaxAlbumTracks == 2  \* most tracks of one album
MaxPlaylist == 2     \* most tracks of a playlist
MaxCandidates == 3   \* most direct-link candidates of one track
MaxSegments == 3     \* most pieces a URL path is put together from
MaxTotal == 3        \* most albums an artist has
MaxPerPage == 2      \* largest page size of the album listing
MaxPlaylistTracks == 21  \* most tracks of a playlist fetched in batches
MaxExcess == 1       \* characters by which a title exceeds the longest file name
\* most connection errors before the service settles: enough to outlast --tries
MaxErrors == MaxTries + 1
\* the counters of a wrapper that retries without limit stop counting here;
\* a wrapper with a limit never gets this far
MaxCount == MaxErrors + 2

NotRun == [ok |-> FALSE, exc |-> "<not run>"]

SampleBytes == {0, 1, 90, 255}
Payloads == UNION {[1..n -> SampleBytes] : n \in 0..MaxDataLen}
\* payloads that reach into the second and the third AES block
LongPayloads == {[i \in 1..n |-> (37 * i) % ByteMod] : n \in {17, 33}}

KEY_A == <<"0", "0", "1", "1", "2", "2", "3", "3", "4", "4", "5", "5", "6", "6",
           "7", "7", "8", "8", "9", "9", "a", "a", "b", "b", "c", "c", "d", "d",
           "E", "E", "F", "F">>
KEY_B == <<"f", "f", "0", "0", "f", "f", "0", "0", "f", "f", "0", "0", "f", "f",
           "0", "0", "1", "2", "3", "4", "5", "6", "7", "8", "9", "a", "b", "c",
           "d", "e", "f", "0">>
KEY_SHORT == <<"a", "b">>
KEY_ODD == <<"a", "b", "c">>
KEY_NOT_HEX == <<"x", "y">>

TsValues == {1, 17}
TrackIds == {1, 42}
Qualities == {ApiTrackQuality.LOW, ApiTrackQuality.NORMAL, ApiTrackQuality.LOSSLESS}

\* every dict holding exactly the five request keys, in every insertion order
Permutations5 == {f \in [1..5 -> 1..5] : \A i, j \in 1..5 : f[i] = f[j] => i = j}
ParamDicts ==
    {[i \in 1..5 |->
        TrackInfoRequestParams(ts, tid, q, Join(",", FILE_FORMAT_KEYS),
                               <<"encraw">>)[f[i]]] :
        f \in Permutations5, ts \in TsValues, tid \in TrackIds, q \in Qualities}

\* a field of a JSON object: one of the values, or (optional) missing
Field(k, values, optional) ==
    {k :> v : v \in values} \cup (IF optional THEN {<<>>} ELSE {})

URL_1 == JStr(<<"https://", "host-1", "/track">>)
URL_2 == JStr(<<"https://", "host-2", "/track">>)

CodecStrings == {FILE_FORMAT_KEYS[i] : i \in DOMAIN FILE_FORMAT_KEYS}
    \cup {<<"opus">>}

DownloadInfos ==
    {JDict(q @@ c @@ u @@ b @@ k) :
        q \in Field("quality", {JStr(<<"lq">>)}, FALSE),
        c \in Field("codec", {JStr(x) : x \in CodecStrings}, FALSE),
        u \in Field("urls", {JList(<<>>), JList(<<URL_1>>),
                             JList(<<URL_1, URL_2>>)}, FALSE),
        b \in Field("bitrate", {JInt(0), JInt(320)}, FALSE),
        k \in Field("key", {JNull, JStr(<<>>), JStr(KEY_A), JStr(KEY_ODD),
                            JStr(KEY_SHORT), JStr(KEY_NOT_HEX)}, TRUE)}

Responses ==
    {JDict("download_info" :> di) : di \in DownloadInfos}
    \cup {JDict(<<>>),
          JDict("download_info" :> JDict("quality" :> JStr(<<"lq">>)))}

\* ---- JSON samples of the normaliser ---------------------------------------
Artist(id, name) == JDict([id |-> JInt(id), name |-> JStr(<<name>>)])
ART_5 == Artist(5, "Art")
ART_6 == Artist(6, "Guest")
ART_NO_NAME == JDict([id |-> JInt(7)])
FEAT == JStr(<<" feat. ">>)

DecomposedLists ==
    {JNull, JList(<<>>), JList(<<FEAT, ART_6>>), JList(<<ART_5, FEAT, ART_6>>),
     JList(<<ART_NO_NAME>>)}

ArtistEntries ==
    {JDict(a.d @@ dec) :
        a \in {ART_5, ART_6}, dec \in Field("decomposed", DecomposedLists, TRUE)}
    \cup {ART_NO_NAME}

ArtistLists == UNION {[1..n -> ArtistEntries] : n \in 0..MaxArtists}

ART_FEAT == JDict(ART_5.d @@ ("decomposed" :> JList(<<FEAT, ART_6>>)))

TRACK_POSITION_3_1 == JDict([index |-> JInt(3), volume |-> JInt(1)])

\* an album entry with every field the parser reads
ALBUM_FULL ==
    JDict([id |-> JInt(10), title |-> JStr(<<"A">>), year |-> JInt(2020),
           metaType |-> JStr(<<"music">>), trackPosition |-> TRACK_POSITION_3_1,
           artists |-> JList(<<ART_5>>)])
\* a second album: version and release date, no year, no track position
ALBUM_B ==
    JDict([id |-> JInt(11), title |-> JStr(<<"B">>), version |-> JStr(<<"Deluxe">>),
           metaType |-> JStr(<<"podcast">>),
           releaseDate |-> JStr(<<"2020-01-02T00:00:00+03:00">>),
           artists |-> JList(<<ART_FEAT>>)])
\* malformed album entries: no metaType, no artists
ALBUM_NO_META_TYPE ==
    JDict([id |-> JInt(10), title |-> JStr(<<"A">>), year |-> JInt(2020),
           trackPosition |-> TRACK_POSITION_3_1, artists |-> JList(<<ART_5>>)])
ALBUM_NO_ARTISTS ==
    JDict([id |-> JInt(12), title |-> JStr(<<"C">>), metaType |-> JStr(<<"music">>)])

RawTracks ==
    {JDict(av @@ id @@ ti @@ ve @@ al @@ ar @@ re @@ ly @@ og) :
        av \in Field("available", {JBool(TRUE), JBool(FALSE)}, TRUE),
        id \in Field("id", {JInt(1)}, TRUE),
        ti \in Field("title", {JStr(<<"X">>)}, TRUE),
        ve \in Field("version", {JStr(<<"Remix">>)}, TRUE),
        al \in Field("albums", {JList(<<>>), JList(<<ALBUM_FULL>>),
                                JList(<<ALBUM_NO_META_TYPE>>),
                                JList(<<ALBUM_B, ALBUM_FULL>>)}, TRUE),
        ar \in Field("artists", {JList(<<ART_5>>), JList(<<ART_FEAT>>),
                                 JList(<<ART_NO_NAME>>)}, TRUE),
        re \in Field("realId", {JStr(<<"1">>)}, TRUE),
        ly \in Field("lyricsInfo",
                     {JNull, JDict(<<>>),
                      JDict([hasAvailableTextLyrics |-> JBool(TRUE)])}, TRUE),
        og \in Field("ogImage", {JStr(<<"avatars/img/%%">>)}, TRUE)}

\* track entries of album and playlist responses
TrackEntry(id, available, albums) ==
    JDict([available |-> JBool(available), id |-> JInt(id), title |-> JStr(<<"X">>),
           albums |-> JList(albums), artists |-> JList(<<ART_5>>),
           realId |-> JStr(<<ToString(id)>>)])
TRACK_GOOD_1 == TrackEntry(1, TRUE, <<ALBUM_FULL>>)
TRACK_GOOD_2 == TrackEntry(2, TRUE, <<>>)
TRACK_UNAVAILABLE == TrackEntry(3, FALSE, <<ALBUM_FULL>>)
TRACK_BAD_ALBUM == TrackEntry(4, TRUE, <<ALBUM_NO_META_TYPE>>)
TRACK_NO_TITLE ==
    JDict([available |-> JBool(TRUE), id |-> JInt(5), albums |-> JList(<<>>),
           artists |-> JList(<<ART_5>>), realId |-> JStr(<<"5">>)])

TrackEntries == {TRACK_GOOD_1, TRACK_GOOD_2, TRACK_UNAVAILABLE, TRACK_BAD_ALBUM,
                 TRACK_NO_TITLE}
AlbumEntries == {ALBUM_FULL, ALBUM_B, ALBUM_NO_META_TYPE, ALBUM_NO_ARTISTS}

TrackEntryLists == UNION {[1..n -> TrackEntries] : n \in 0..MaxEntries}
AlbumEntryLists == UNION {[1..n -> AlbumEntries] : n \in 0..MaxEntries}

\* album.jsx: the album's own fields and its volumes
AlbumResponses ==
    {JDict(base.d @@ ("volumes" :> JList(<<JList(tracks)>>))) :
        base \in {ALBUM_FULL, ALBUM_B}, tracks \in TrackEntryLists}
    \cup {ALBUM_FULL,
          JDict(ALBUM_FULL.d @@ ("volumes" :>
                    JList(<<JList(<<TRACK_GOOD_1>>), JList(<<TRACK_NO_TITLE>>),
                            JList(<<TRACK_GOOD_2>>)>>)))}

\* artist.jsx with what=albums
ArtistResponses ==
    {JDict("artist" :> ART_5 @@ "albums" :> JList(albums)) :
        albums \in AlbumEntryLists}
    \cup {JDict("artist" :> ART_5)}

\* playlist.jsx
PlaylistResponses ==
    {JDict("playlist" :> JDict("tracks" :> JList(tracks))) :
        tracks \in TrackEntryLists}
    \cup {JDict("playlist" :> JDict(<<>>))}


\* --------------------------------------------------------------------------
\* State machine
\* --------------------------------------------------------------------------
signVars == <<params, serialized, signed>>
downloadVars == <<cli_quality, track_id, request, response, info, payload, track_data>>
cryptVars == <<plaintext, aes_key, cipher, recovered>>
parseVars == <<raw, parsed, log>>
runVars == <<args, album_ids, result_tracks, processed, printed, downloaded,
             covers_cache, cover_fetches, run, files, info_requests, first_run>>
retryVars == <<max_try_count, retry_delay, try_count, attempts, slept, network,
               outcome, messages>>
selectVars == <<candidates, best, selected>>
urlVars == <<url, ids, exit_code, client>>
writeVars == <<fs, fault, write_result>>
pageVars == <<service, page, has_next, page_requests, filtered, total_track_count>>
batchVars == <<playlist, offset, track_requests>>
pathVars == <<path_pattern, meta, unsafe_path, prepared>>
mainVars == <<urlVars, writeVars, pageVars, batchVars, pathVars>>
cliVars == <<runVars, retryVars, selectVars, mainVars>>

IdleSign == params = <<>> /\ serialized = <<>> /\ signed = <<>>
IdleDownload ==
    /\ cli_quality = 0 /\ track_id = 0 /\ request = <<>> /\ response = JNull
    /\ info = NotRun /\ payload = <<>> /\ track_data = NotRun
IdleCrypt == plaintext = <<>> /\ aes_key = <<>> /\ cipher = NotRun /\ recovered = NotRun
IdleParse == raw = JNull /\ parsed = NotRun /\ log = 0
IdleRun ==
    /\ args = <<>> /\ album_ids = <<>> /\ result_tracks = <<>> /\ processed = <<>>
    /\ printed = <<>> /\ downloaded = <<>> /\ covers_cache = <<>>
    /\ cover_fetches = <<>> /\ run = NotRun
    /\ files = {} /\ info_requests = <<>> /\ first_run = <<>>
IdleRetry ==
    /\ max_try_count = 0 /\ retry_delay = 0 /\ try_count = 0 /\ attempts = 0
    /\ slept = 0 /\ network = <<>> /\ outcome = NotRun /\ messages = 0
IdleSelect == candidates = <<>> /\ best = FALSE /\ selected = NotRun
IdleUrl == url = <<>> /\ ids = <<>> /\ exit_code = JNull /\ client = FALSE
IdleWrite == fs = <<>> /\ fault = <<>> /\ write_result = NotRun
IdlePage ==
    /\ service = <<>> /\ page = 0 /\ has_next = FALSE /\ page_requests = <<>>
    /\ filtered = <<>> /\ total_track_count = JNull
IdleBatch == playlist = <<>> /\ offset = 0 /\ track_requests = <<>>
IdlePath == path_pattern = <<>> /\ meta = <<>> /\ unsafe_path = FALSE /\ prepared = NotRun
IdleMain == IdleUrl /\ IdleWrite /\ IdlePage /\ IdleBatch /\ IdlePath
IdleCli == IdleRun /\ IdleRetry /\ IdleSelect /\ IdleMain

\* ---- sign_params called on a parameter dict ------------------------------
InitSign ==
    /\ pc = "sign_input"
    /\ params \in ParamDicts
    /\ serialized = <<>> /\ signed = <<>>
    /\ IdleDownload /\ IdleCrypt /\ IdleParse /\ IdleCli

SignParams ==
    /\ pc = "sign_input"
    /\ serialized' = SerializeParams(params)
    /\ signed' = sign_params(params)
    /\ pc' = "signed"
    /\ UNCHANGED <<cliVars, params, downloadVars, cryptVars, parseVars>>

NextSign == SignParams

SpecSign == InitSign /\ [][NextSign]_vars

\* ---- one track: to_downloadable_track, then download_track ---------------
Init ==
    /\ pc = "start"
    /\ cli_quality \in 0..2
    /\ track_id \in TrackIds
    /\ request = <<>> /\ response = JNull /\ info = NotRun
    /\ payload = <<>> /\ track_data = NotRun
    /\ IdleSign /\ IdleCrypt /\ IdleParse /\ IdleCli

\* to_downloadable_track with get_download_info inside it: ts is the clock,
\* resp the service's answer
ToDownloadableTrack ==
    /\ pc = "start"
    /\ \E ts \in TsValues, resp \in Responses :
        /\ request' = DownloadInfoRequest(ts, track_id, ApiQualityOf(cli_quality))
        /\ response' = resp
        /\ info' = DownloadableTrack(resp)
    /\ pc' = "resolved"
    /\ UNCHANGED <<cliVars, cli_quality, track_id, payload, track_data, signVars, cryptVars,
                   parseVars>>

\* download_track: random.choice(urls) raises IndexError on an empty list,
\* retrieve() yields the payload or raises NetworkError
DownloadTrack ==
    /\ pc = "resolved"
    /\ info.ok
    /\ IF info.val.download_info.urls = <<>>
       THEN payload' = <<>> /\ track_data' = Raise("IndexError")
       ELSE \/ payload' = <<>> /\ track_data' = Raise("NetworkError")
            \/ \E data \in Payloads :
                /\ payload' = data
                /\ track_data' = DownloadTrackResult(info.val.download_info, data)
    /\ pc' = "downloaded"
    /\ UNCHANGED <<cliVars, cli_quality, track_id, request, response, info, signVars,
                   cryptVars, parseVars>>

Next == ToDownloadableTrack \/ DownloadTrack

Spec == Init /\ [][Next]_vars

\* ---- decrypt_data applied twice with one key ------------------------------
InitCrypt ==
    /\ pc = "plain"
    /\ plaintext \in Payloads \cup LongPayloads
    /\ aes_key \in {KEY_A, KEY_B}
    /\ cipher = NotRun /\ recovered = NotRun
    /\ IdleSign /\ IdleDownload /\ IdleParse /\ IdleCli

\* AES-CTR encryption is the same keystream XOR as decryption
Encrypt ==
    /\ pc = "plain"
    /\ cipher' = decrypt_data(plaintext, aes_key)
    /\ pc' = "encrypted"
    /\ UNCHANGED <<cliVars, plaintext, aes_key, recovered, signVars, downloadVars, parseVars>>

Decrypt ==
    /\ pc = "encrypted"
    /\ cipher.ok
    /\ recovered' = decrypt_data(cipher.val, aes_key)
    /\ pc' = "decrypted"
    /\ UNCHANGED <<cliVars, plaintext, aes_key, cipher, signVars, downloadVars, parseVars>>

NextCrypt == Encrypt \/ Decrypt

SpecCrypt == InitCrypt /\ [][NextCrypt]_vars

\* ---- BasicTrackInfo.from_json on one raw track, either implementation -----
InitParse ==
    /\ pc = "raw_track"
    /\ raw \in RawTracks
    /\ parsed = NotRun /\ log = 0
    /\ IdleSign /\ IdleDownload /\ IdleCrypt /\ IdleCli

FromJsonModels ==
    /\ pc = "raw_track"
    /\ parsed' = BasicTrackInfo_models(raw)
    /\ log' = TrackLogged(raw)
    /\ pc' = "parsed_models"
    /\ UNCHANGED <<cliVars, raw, signVars, downloadVars, cryptVars>>

FromJsonMain ==
    /\ pc = "raw_track"
    /\ parsed' = BasicTrackInfo_main(raw)
    /\ pc' = "parsed_main"
    /\ UNCHANGED <<cliVars, raw, log, signVars, downloadVars, cryptVars>>

NextParse == FromJsonModels \/ FromJsonMain

SpecParse == InitParse /\ [][NextParse]_vars

\* ---- an album, artist or playlist response parsed by ym_api ---------------
InitResponse ==
    /\ \/ pc = "album_response" /\ raw \in AlbumResponses
       \/ pc = "artist_response" /\ raw \in ArtistResponses
       \/ pc = "playlist_response" /\ raw \in PlaylistResponses
    /\ parsed = NotRun /\ log = 0
    /\ IdleSign /\ IdleDownload /\ IdleCrypt /\ IdleCli

\* get_full_album_info: FullAlbumInfo.from_json(resp.json())
GetFullAlbumInfo ==
    /\ pc = "album_response"
    /\ parsed' = FullAlbumInfo(raw, "models")
    /\ log' = IF BasicAlbumInfo(raw).ok THEN TracksLogged(VolumeTracks(raw)) ELSE 0
    /\ pc' = "parsed_album"
    /\ UNCHANGED <<cliVars, raw, signVars, downloadVars, cryptVars>>

\* get_artist_info: FullArtistInfo.from_json(resp.json())
GetArtistInfo ==
    /\ pc = "artist_response"
    /\ parsed' = FullArtistInfo(raw, "models")
    /\ pc' = "parsed_artist"
    /\ UNCHANGED <<cliVars, raw, log, signVars, downloadVars, cryptVars>>

\* get_playlist
GetPlaylist ==
    /\ pc = "playlist_response"
    /\ parsed' = Playlist(raw, "models")
    /\ log' = TracksLogged(DictGet(raw.d["playlist"], "tracks", JList(<<>>)).l)
    /\ pc' = "parsed_playlist"
    /\ UNCHANGED <<cliVars, raw, signVars, downloadVars, cryptVars>>

NextResponse == GetFullAlbumInfo \/ GetArtistInfo \/ GetPlaylist

SpecResponse == InitResponse /\ [][NextResponse]_vars

\* ---- parse_artists on an artist list ---------------------------------------
InitArtists ==
    /\ pc = "artist_list"
    /\ raw \in {JList(l) : l \in ArtistLists}
    /\ parsed = NotRun /\ log = 0
    /\ IdleSign /\ IdleDownload /\ IdleCrypt /\ IdleCli

ParseArtists ==
    /\ pc = "artist_list"
    /\ parsed' = parse_artists(raw.l)
    /\ pc' = "parsed_artists"
    /\ UNCHANGED <<cliVars, raw, log, signVars, downloadVars, cryptVars>>

NextArtists == ParseArtists

SpecArtists == InitArtists /\ [][NextArtists]_vars

\* ---- one request through retry_wrapper, or through the legacy session -----
Networks ==
    [errors : 0..MaxErrors,
     then : {"ok", "connection_error", "rate_limited", "unauthorized"}]

InitRetry ==
    /\ pc \in {"request", "legacy_request"}
    /\ max_try_count \in 0..MaxTries
    /\ retry_delay \in 0..MaxDelay
    /\ network \in Networks
    /\ try_count = 0 /\ attempts = 0 /\ slept = 0
    /\ outcome = NotRun /\ messages = 0
    /\ IdleMain /\ IdleSign /\ IdleDownload /\ IdleCrypt /\ IdleParse /\ IdleRun /\ IdleSelect

Bump(n) == IF n < MaxCount THEN n + 1 ELSE n

\* retry_wrapper: the call of the wrapped request and what the except
\* clause decides
RetryWrapperCall ==
    /\ pc = "request"
    /\ attempts' = Bump(attempts)
    /\ LET result == original_wrapper(Answer(network, attempts + 1)) IN
       IF result.ok
       THEN /\ outcome' = result /\ pc' = "returned"
            /\ UNCHANGED try_count
       ELSE IF result.exc = "NetworkError" /\ MayRetry(max_try_count, try_count)
       THEN /\ try_count' = Bump(try_count)
            /\ pc' = "sleeping"
            /\ UNCHANGED outcome
       ELSE /\ outcome' = result /\ pc' = "raised"
            /\ UNCHANGED try_count
    /\ UNCHANGED <<mainVars, max_try_count, retry_delay, network, slept, messages, signVars,
                   downloadVars, cryptVars, parseVars, runVars, selectVars>>

\* retry_wrapper: time.sleep(retry_delay), then the next pass of the loop
RetryWrapperSleep ==
    /\ pc = "sleeping"
    /\ slept' = IF attempts < MaxCount THEN slept + SleepFor(retry_delay) ELSE slept
    /\ pc' = "request"
    /\ UNCHANGED <<mainVars, max_try_count, retry_delay, network, try_count, attempts, outcome,
                   messages, signVars, downloadVars, cryptVars, parseVars, runVars,
                   selectVars>>

\* main.py: session.get with response_hook installed; there is no retry
LegacyRequest ==
    /\ pc = "legacy_request"
    /\ attempts' = 1
    /\ outcome' = LegacyAnswer(Answer(network, 1))
    /\ messages' = IF LegacyAnswer(Answer(network, 1)) = Raise("SystemExit")
                   THEN 2 ELSE 0
    /\ pc' = "legacy_done"
    /\ UNCHANGED <<mainVars, max_try_count, retry_delay, network, try_count, slept, signVars,
                   downloadVars, cryptVars, parseVars, runVars, selectVars>>

NextRetry == RetryWrapperCall \/ RetryWrapperSleep \/ LegacyRequest

SpecRetry == InitRetry /\ [][NextRetry]_vars

\* the interpreter keeps running: a call that is due is made, a sleep ends
SpecRetryLive ==
    InitRetry /\ [][NextRetry]_vars
    /\ WF_vars(RetryWrapperCall) /\ WF_vars(RetryWrapperSleep) /\ WF_vars(LegacyRequest)

\* ---- the legacy selector on one candidate list ----------------------------
Codecs == {"mp3", "aac", "flac"}
Bitrates == {128, 160, 192, 256}
CandidateLists ==
    UNION {[1..n -> {Candidate(c, b) : c \in Codecs, b \in Bitrates}] :
              n \in 0..MaxCandidates}

InitSelect ==
    /\ pc = "candidates"
    /\ candidates \in CandidateLists
    /\ best \in BOOLEAN
    /\ selected = NotRun
    /\ IdleMain /\ IdleSign /\ IdleDownload /\ IdleCrypt /\ IdleParse /\ IdleRun /\ IdleRetry

Select ==
    /\ pc = "candidates"
    /\ selected' = SelectCandidate(candidates, best)
    /\ pc' = "selected"
    /\ UNCHANGED <<mainVars, candidates, best, signVars, downloadVars, cryptVars, parseVars,
                   runVars, retryVars>>

NextSelect == Select

SpecSelect == InitSelect /\ [][NextSelect]_vars

\* ---- main up to the client: the identifier of the run --------------------
PathSegments ==
    {<<"/", "artist", "/", "5">>, <<"/", "album", "/", "7">>, <<"/", "track", "/", "3">>,
     <<"/", "track", "/", "4", "2">>, <<"/", "users", "/", "u", "/", "playlists", "/", "9">>,
     <<"/", "x">>, <<"/">>}

UrlPaths ==
    {Concat(segs) : segs \in UNION {[1..n -> PathSegments] : n \in 0..MaxSegments}}

\* the state after parse_args: --url, or one identifier of the ID group
InitUrl ==
    /\ pc = "parsed_args"
    /\ \/ url \in {JStr(path) : path \in UrlPaths} /\ ids = NoIds
       \/ /\ url = JNull
          /\ ids \in {[NoIds EXCEPT !.artist_id = JStr(<<"5">>)],
                       [NoIds EXCEPT !.album_id = JStr(<<"7">>)],
                       [NoIds EXCEPT !.track_id = JStr(<<"3">>)],
                       [NoIds EXCEPT !.playlist_id = JStr(<<"u", "/", "9">>)]}
    /\ exit_code = JNull /\ client = FALSE
    /\ IdleWrite /\ IdlePage /\ IdleBatch /\ IdlePath
    /\ IdleSign /\ IdleDownload /\ IdleCrypt /\ IdleParse /\ IdleRun /\ IdleRetry
    /\ IdleSelect

\* main, "if args.url is not None": urlparse(args.url).path is matched
\* against the four patterns
ParseUrl ==
    /\ pc = "parsed_args"
    /\ IF url = JNull
       THEN pc' = "init_client" /\ UNCHANGED <<ids, exit_code>>
       ELSE IF ResolveUrl(url.s).ok
       THEN /\ ids' = ResolveUrl(url.s).val
            /\ pc' = "init_client"
            /\ UNCHANGED exit_code
       ELSE /\ exit_code' = JInt(1)
            /\ pc' = "exited"
            /\ UNCHANGED ids
    /\ UNCHANGED <<url, client, writeVars, pageVars, batchVars, pathVars, signVars,
                   downloadVars, cryptVars, parseVars, runVars, retryVars, selectVars>>

\* core.init_client: the first request to the service
InitClient ==
    /\ pc = "init_client"
    /\ client' = TRUE
    /\ pc' = "client_ready"
    /\ UNCHANGED <<url, ids, exit_code, writeVars, pageVars, batchVars, pathVars, signVars,
                   downloadVars, cryptVars, parseVars, runVars, retryVars, selectVars>>

NextUrl == ParseUrl \/ InitClient

SpecUrl == InitUrl /\ [][NextUrl]_vars

\* ---- one call of write_via_temporary_file --------------------------------
TARGET_PATH == <<"01 - Title", ".flac">>

Exceptions == {"InterruptedError", "OSError", "MutagenError", "KeyboardInterrupt"}

\* what goes wrong in the call: nothing, or an exception in one of its steps
Faults ==
    {[step |-> "none", exc |-> "none"]}
    \cup [step : {"write", "hook", "rename"}, exc : Exceptions]

\* the directory before the call: the target may be there from an earlier
\* download, the temporary file from a call that did not remove it
InitWrite ==
    /\ pc = "write_bytes"
    /\ fs \in [{TARGET_PATH, temporary_file(TARGET_PATH)} ->
                  {JNull, File("old", TRUE, TRUE)}]
    /\ \E f \in Faults, hook \in BOOLEAN :
          /\ f.step = "hook" => hook
          /\ fault = [step |-> f.step, exc |-> f.exc, hook |-> hook,
                      before |-> fs[TARGET_PATH]]
    /\ write_result = NotRun
    /\ IdleUrl /\ IdlePage /\ IdleBatch /\ IdlePath
    /\ IdleSign /\ IdleDownload /\ IdleCrypt /\ IdleParse /\ IdleRun /\ IdleRetry
    /\ IdleSelect

\* temporary_file.write_bytes(data): a failing write leaves the file as it
\* was or with a part of the data
WriteBytes ==
    /\ pc = "write_bytes"
    /\ LET temporary == temporary_file(TARGET_PATH) IN
       IF fault.step = "write"
       THEN \E left \in {fs, write_bytes(fs, temporary, File("new", FALSE, FALSE))} :
               /\ fs' = ExceptInterrupted(left, temporary, fault.exc).dir
               /\ write_result' = ExceptInterrupted(left, temporary, fault.exc).raised
               /\ pc' = "raised"
       ELSE /\ fs' = write_bytes(fs, temporary, File("new", TRUE, FALSE))
            /\ pc' = "hook"
            /\ UNCHANGED write_result
    /\ UNCHANGED <<fault, urlVars, pageVars, batchVars, pathVars, signVars, downloadVars,
                   cryptVars, parseVars, runVars, retryVars, selectVars>>

\* temporary_file_hook(temporary_file), which is set_tags on the temporary
\* file when download_track made the call
TemporaryFileHook ==
    /\ pc = "hook"
    /\ LET temporary == temporary_file(TARGET_PATH) IN
       IF ~fault.hook
       THEN pc' = "rename" /\ UNCHANGED <<fs, write_result>>
       ELSE IF fault.step = "hook"
       THEN /\ fs' = ExceptInterrupted(fs, temporary, fault.exc).dir
            /\ write_result' = ExceptInterrupted(fs, temporary, fault.exc).raised
            /\ pc' = "raised"
       ELSE /\ fs' = write_bytes(fs, temporary, [fs[temporary] EXCEPT !.tagged = TRUE])
            /\ pc' = "rename"
            /\ UNCHANGED write_result
    /\ UNCHANGED <<fault, urlVars, pageVars, batchVars, pathVars, signVars, downloadVars,
                   cryptVars, parseVars, runVars, retryVars, selectVars>>

\* temporary_file.rename(target_path); return target_path
Rename ==
    /\ pc = "rename"
    /\ IF fault.step = "rename"
       THEN /\ write_result' = Raise(fault.exc)
            /\ pc' = "raised"
            /\ UNCHANGED fs
       ELSE /\ fs' = rename(fs, temporary_file(TARGET_PATH), TARGET_PATH)
            /\ write_result' = Ok(TARGET_PATH)
            /\ pc' = "returned"
    /\ UNCHANGED <<fault, urlVars, pageVars, batchVars, pathVars, signVars, downloadVars,
                   cryptVars, parseVars, runVars, retryVars, selectVars>>

NextWrite == WriteBytes \/ TemporaryFileHook \/ Rename

SpecWrite == InitWrite /\ [][NextWrite]_vars

\* ---- a run of the track loop of cli/main.py -------------------------------
JPEG_BYTES == <<255, 216, 255, 224>>
UNKNOWN_BYTES == <<0, 1>>

\* the answer of /get-file-info for a track, by the codec it names
RunResponse(codec) ==
    JDict("download_info" :>
          JDict([quality |-> JStr(<<"lossless">>), codec |-> JStr(codec),
                 urls |-> JList(<<URL_1>>), bitrate |-> JInt(0)]))

\* an album of the listing; artists holds the id of every album.artists entry
RunAlbum(id, available, meta_type, artists) ==
    [id |-> id, available |-> available, meta_type |-> meta_type, artists |-> artists]

RunAlbums ==
    {RunAlbum(10, TRUE, "music", <<5>>), RunAlbum(11, TRUE, "podcast", <<5>>),
     RunAlbum(12, TRUE, "music", <<6, 5>>), RunAlbum(13, FALSE, "music", <<5>>),
     RunAlbum(0, TRUE, "music", <<5, 6>>)}

TrackKinds ==
    {"good", "no_cover", "unavailable", "on_disk", "unknown_codec", "bad_cover", "empty_cover"}
ListedKinds == {"good", "on_disk", "unknown_codec"}

\* the n-th track of an album as the service describes it
RunTrack(album, kind, n) ==
    [id |-> 10 * album.id + n,
     album |-> album,
     save_path |-> <<"music", "/", 10 * album.id + n>>,
     available |-> kind # "unavailable",
     on_disk |-> kind = "on_disk",
     response |-> RunResponse(IF kind = "unknown_codec" THEN <<"opus">> ELSE <<"flac">>),
     cover_uri |-> IF kind = "no_cover" THEN JNull ELSE JStr(<<"avatars/cover/%%">>),
     cover_bytes |-> IF kind = "bad_cover" THEN UNKNOWN_BYTES
                     ELSE IF kind = "empty_cover" THEN <<>>
                     ELSE JPEG_BYTES]

\* an album with the tracks client.albums_with_tracks returns for it
AlbumWithTracks(album, kinds) ==
    [album |-> album, tracks |-> [n \in DOMAIN kinds |-> RunTrack(album, kinds[n], n)]]

KindLists(kinds) == UNION {[1..n -> kinds] : n \in 0..MaxAlbumTracks}

Options ==
    [artist_id : {<<"5">>}, only_music : BOOLEAN, stick_to_artist : BOOLEAN,
     skip_existing : BOOLEAN, embed_cover : BOOLEAN]

Running == Ok("running")

\* every track the identifier of the run stands for
InputTracks(albums, tracks) ==
    {tracks[i] : i \in DOMAIN tracks}
    \cup UNION {{albums[i].tracks[j] : j \in DOMAIN albums[i].tracks} : i \in DOMAIN albums}

\* the audio files found on disk when the run starts
FilesOnDisk(tracks, suffix) ==
    {t.save_path \o <<suffix>> : t \in {u \in tracks : u.on_disk}}

FirstRun(albums, tracks) ==
    [pass |-> 1, album_ids |-> albums, result_tracks |-> tracks, wrote_all |-> FALSE]

InitRunCommon ==
    /\ processed = <<>> /\ printed = <<>> /\ downloaded = <<>>
    /\ covers_cache = <<>> /\ cover_fetches = <<>>
    /\ run = Running
    /\ info_requests = <<>>
    /\ first_run = FirstRun(album_ids, result_tracks)
    /\ IdleMain /\ IdleSign /\ IdleDownload /\ IdleCrypt /\ IdleParse /\ IdleRetry /\ IdleSelect

\* the state when the for loop over result_tracks is entered
InitRun ==
    /\ args \in Options
    /\ \/ /\ pc = "artist"
          /\ album_ids \in UNION {[1..n -> {AlbumWithTracks(a, k) :
                                              a \in RunAlbums, k \in KindLists(ListedKinds)}] :
                                     n \in 0..MaxAlbums}
          /\ result_tracks = <<>>
          \* a track id names one track
          /\ \A t, u \in InputTracks(album_ids, <<>>) : t.id = u.id => t = u
       \/ /\ pc = "album"
          /\ album_ids \in {<<AlbumWithTracks(a, k)>> :
                               a \in RunAlbums, k \in KindLists(TrackKinds)}
          /\ result_tracks = <<>>
       \/ /\ pc = "track"
          /\ album_ids = <<>>
          /\ result_tracks \in {<<RunTrack(a, k, 1)>> : a \in RunAlbums, k \in TrackKinds}
       \/ /\ pc = "playlist"
          /\ album_ids = <<>>
          /\ result_tracks \in
                UNION {[1..n -> {RunTrack(a, k, i) :
                                    a \in RunAlbums, k \in TrackKinds, i \in 1..2}] :
                          n \in 0..MaxPlaylist}
          \* a track id names one track
          /\ \A i, j \in DOMAIN result_tracks :
                result_tracks[i].id = result_tracks[j].id =>
                    result_tracks[i] = result_tracks[j]
    /\ files = FilesOnDisk(InputTracks(album_ids, result_tracks), ".m4a")
    /\ InitRunCommon

\* album_tracks_gen asked for a track with none at hand: the next album id
\* (for an artist, the next album of the listing that filter_album lets
\* through) and the tracks of that album
AlbumTracksGen ==
    /\ run = Running
    /\ result_tracks = <<>> /\ album_ids # <<>>
    /\ LET entry == Head(album_ids)
           verdict == IF pc = "artist" THEN filter_album(entry.album, args)
                      ELSE [pass |-> TRUE, printed |-> <<>>] IN
       /\ printed' = printed \o verdict.printed
       /\ result_tracks' = IF verdict.pass THEN entry.tracks ELSE <<>>
    /\ album_ids' = Tail(album_ids)
    /\ UNCHANGED <<mainVars, pc, args, processed, downloaded, covers_cache, cover_fetches, run,
                   files, info_requests, first_run,
                   signVars, downloadVars, cryptVars, parseVars, retryVars, selectVars>>

\* one pass of the body of "for track in result_tracks"
ProcessTrack ==
    /\ pc \in {"artist", "album", "track", "playlist"}
    /\ run = Running
    /\ result_tracks # <<>>
    /\ LET track == Head(result_tracks)
           downloadable == to_downloadable_track(track.response, track.save_path)
           cover == CoverPart(track, args.embed_cover, covers_cache) IN
       /\ processed' = Append(processed, track)
       /\ result_tracks' = Tail(result_tracks)
       /\ IF ~track.available
          THEN /\ printed' = Append(printed, Message("track_unavailable", track.id))
               /\ UNCHANGED <<downloaded, covers_cache, cover_fetches, run, files,
                              info_requests>>
          ELSE IF args.skip_existing /\ FileExists(track.save_path, files)
          THEN UNCHANGED <<printed, downloaded, covers_cache, cover_fetches, run, files,
                           info_requests>>
          ELSE /\ info_requests' = Append(info_requests, track.id)
               /\ IF ~downloadable.ok
                  THEN /\ run' = downloadable
                       /\ UNCHANGED <<printed, downloaded, covers_cache, cover_fetches,
                                      files>>
                  ELSE /\ printed' = Append(printed, Message("downloading", track.id))
                       /\ cover_fetches' = cover_fetches \o cover.fetches
                       /\ covers_cache' = cover.cache
                       /\ IF cover.result.ok
                          THEN /\ downloaded' =
                                     Append(downloaded,
                                            [track |-> track, cover |-> cover.result.val])
                               /\ files' = files \cup {downloadable.val.path}
                               /\ UNCHANGED run
                          ELSE /\ run' = cover.result
                               /\ UNCHANGED <<downloaded, files>>
    /\ UNCHANGED <<mainVars, pc, args, album_ids, first_run, signVars, downloadVars, cryptVars, parseVars,
                   retryVars, selectVars>>

\* result_tracks is exhausted: the loop and main end
FinishRun ==
    /\ run = Running
    /\ result_tracks = <<>> /\ album_ids = <<>>
    /\ run' = Ok("finished")
    /\ UNCHANGED <<mainVars, pc, args, album_ids, result_tracks, processed, printed, downloaded,
                   covers_cache, cover_fetches, files, info_requests, first_run, signVars, downloadVars, cryptVars,
                   parseVars, retryVars, selectVars>>

NextRun == AlbumTracksGen \/ ProcessTrack \/ FinishRun

SpecRun == InitRun /\ [][NextRun]_vars

\* ---- the same command line run a second time ------------------------------
\* main is started again with the arguments of the finished run: the service
\* lists the same albums and tracks, the files of the first run are on disk
Rerun ==
    /\ pc \in {"artist", "album", "track", "playlist"}
    /\ run = Ok("finished") /\ first_run.pass = 1
    /\ first_run' = [first_run EXCEPT !.pass = 2,
                                      !.wrote_all = (Len(downloaded) = Len(processed))]
    /\ album_ids' = first_run.album_ids
    /\ result_tracks' = first_run.result_tracks
    /\ processed' = <<>> /\ printed' = <<>> /\ downloaded' = <<>>
    /\ covers_cache' = <<>> /\ cover_fetches' = <<>> /\ info_requests' = <<>>
    /\ run' = Running
    /\ UNCHANGED <<mainVars, pc, args, files, signVars, downloadVars, cryptVars, parseVars,
                   retryVars, selectVars>>

NextRerun == NextRun \/ Rerun

SpecRerun == InitRun /\ [][NextRerun]_vars

\* ---- the album listing of an artist download -----------------------------
\* the albums of the artist as the service lists them, with their track_count
LISTED_ALBUMS ==
    <<[album |-> RunAlbum(10, TRUE, "music", <<5>>), track_count |-> 2],
      [album |-> RunAlbum(12, TRUE, "music", <<6, 5>>), track_count |-> 3],
      [album |-> RunAlbum(13, FALSE, "music", <<5>>), track_count |-> 0],
      [album |-> RunAlbum(11, TRUE, "podcast", <<5>>), track_count |-> 1]>>

LISTING_ARGS ==
    [artist_id |-> <<"5">>, only_music |-> TRUE, stick_to_artist |-> TRUE,
     skip_existing |-> FALSE, embed_cover |-> FALSE]

\* the service answers this many requests, more than a listing of MaxTotal
\* albums needs
MaxRequests == MaxTotal + 2

\* the albums page number p holds when the pages are per_page long
PageAlbums(p, per_page, total) ==
    [i \in 1..(IF total - p * per_page <= 0 THEN 0
              ELSE IF total - p * per_page < per_page THEN total - p * per_page
              ELSE per_page) |-> LISTED_ALBUMS[p * per_page + i]]

\* what client.artists_direct_albums(artist_id, p) returns: None, or the
\* albums of the page with a pager, which may be missing or report page 0
PageResponse(kind, p, per_page, total) ==
    IF kind = "none" THEN JNull
    ELSE [albums |-> PageAlbums(p, per_page, total),
          pager |-> IF kind = "no_pager" THEN JNull
                    ELSE [page |-> IF kind = "stale_pager" THEN 0 ELSE p,
                          per_page |-> per_page, total |-> total]]

Services ==
    {[p \in 0..(MaxRequests - 1) |-> PageResponse(kinds[p], p, per_page, total)] :
        kinds \in [0..(MaxRequests - 1) -> {"none", "no_pager", "pager", "stale_pager"}],
        per_page \in 0..MaxPerPage, total \in 0..MaxTotal}

\* the state when the track loop first asks albums_id_gen for an album id
InitPages ==
    /\ pc = "list"
    /\ service \in Services
    /\ page = 0 /\ has_next = TRUE
    /\ page_requests = <<>> /\ filtered = <<>>
    /\ total_track_count \in {JNull, JInt(9)}
    /\ IdleUrl /\ IdleWrite /\ IdleBatch /\ IdlePath
    /\ IdleSign /\ IdleDownload /\ IdleCrypt /\ IdleParse /\ IdleRun /\ IdleRetry
    /\ IdleSelect

\* one pass of "while has_next" in albums_id_gen; the service is asked at
\* most MaxRequests times
RequestPage ==
    /\ pc = "list" /\ has_next
    /\ Len(page_requests) < MaxRequests
    /\ page_requests' = Append(page_requests, page)
    /\ LET albums_info == service[page] IN
       IF albums_info = JNull
       THEN /\ pc' = "listed"
            /\ UNCHANGED <<page, has_next, filtered, total_track_count>>
       ELSE /\ filtered' = filtered \o FilterPage(albums_info.albums, LISTING_ARGS,
                                                  total_track_count).filtered
            /\ total_track_count' = FilterPage(albums_info.albums, LISTING_ARGS,
                                               total_track_count).count
            /\ IF albums_info.pager = JNull
               THEN pc' = "listed" /\ UNCHANGED <<page, has_next>>
               ELSE /\ page' = albums_info.pager.page + 1
                    /\ has_next' = HasNext(albums_info.pager, albums_info.pager.page + 1)
                    /\ UNCHANGED pc
    /\ UNCHANGED <<service, urlVars, writeVars, batchVars, pathVars, signVars, downloadVars,
                   cryptVars, parseVars, runVars, retryVars, selectVars>>

\* "while has_next" with has_next False: the generator is exhausted
ListingDone ==
    /\ pc = "list" /\ ~has_next
    /\ pc' = "listed"
    /\ UNCHANGED <<pageVars, urlVars, writeVars, batchVars, pathVars, signVars,
                   downloadVars, cryptVars, parseVars, runVars, retryVars, selectVars>>

NextPages == RequestPage \/ ListingDone

SpecPages == InitPages /\ [][NextPages]_vars

\* ---- the tracks of a playlist download ------------------------------------
\* the track ids of playlist.fetch_tracks(): distinct ids, or three ids over
\* and over
Playlists ==
    UNION {{[k \in 1..n |-> 100 + k], [k \in 1..n |-> 200 + 2 * k], [k \in 1..n |-> k % 3]} :
              n \in 0..MaxPlaylistTracks}

InitPlaylist ==
    /\ pc = "playlist_gen"
    /\ playlist \in Playlists
    /\ offset = 0 /\ track_requests = <<>>
    /\ IdleUrl /\ IdleWrite /\ IdlePage /\ IdlePath
    /\ IdleSign /\ IdleDownload /\ IdleCrypt /\ IdleParse /\ IdleRun /\ IdleRetry
    /\ IdleSelect

\* one pass of "for i in range(0, len(tracks), FETCH_PAGE_SIZE)":
\* client.tracks is called with the ids of tracks[i : i + FETCH_PAGE_SIZE]
FetchTracks ==
    /\ pc = "playlist_gen"
    /\ offset < Len(playlist)
    /\ track_requests' =
          Append(track_requests, Slice(playlist, offset, offset + FETCH_PAGE_SIZE))
    /\ offset' = offset + FETCH_PAGE_SIZE
    /\ UNCHANGED <<pc, playlist, urlVars, writeVars, pageVars, pathVars, signVars,
                   downloadVars, cryptVars, parseVars, runVars, retryVars, selectVars>>

\* the range is exhausted
PlaylistDone ==
    /\ pc = "playlist_gen"
    /\ offset >= Len(playlist)
    /\ pc' = "playlist_done"
    /\ UNCHANGED <<batchVars, urlVars, writeVars, pageVars, pathVars, signVars,
                   downloadVars, cryptVars, parseVars, runVars, retryVars, selectVars>>

NextPlaylist == FetchTracks \/ PlaylistDone

SpecPlaylist == InitPlaylist /\ [][NextPlaylist]_vars

\* ---- the path of one track ------------------------------------------------
ART == [id |-> JInt(5), name |-> JStr(<<"Art">>)]

AlbumMeta(title, version) ==
    [id |-> JInt(10), title |-> title, version |-> version, year |-> JInt(2020),
     track_count |-> JInt(12), track_position |-> [index |-> 3], artists |-> <<ART>>]

TrackMeta(title, version, albums) ==
    [id |-> JInt(101), title |-> title, version |-> version, artists |-> <<ART>>,
     albums |-> albums]

\* a title longer than a file name may be
LONG_TITLE == [i \in 1..(MAX_FILE_NAME_LENGTH_WITHOUT_SUFFIX + MaxExcess) |-> "a"]

Titles ==
    {JStr(<<"X">>), JStr(<<"a", "/", "b">>), JStr(<<" ", "X", " ">>), JStr(<<".", ".">>),
     JStr(LONG_TITLE), JNull}

Metas ==
    {TrackMeta(t, v, <<AlbumMeta(JStr(<<"A">>), JNull)>>) :
        t \in Titles, v \in {JNull, JStr(<<"Remix">>)}}
    \cup {TrackMeta(JStr(<<"X">>), JNull, <<AlbumMeta(t, JNull)>>) : t \in Titles}
    \cup {TrackMeta(JStr(<<"X">>), JNull, <<>>)}

DEFAULT_PATH_PATTERN ==
    <<"#album", "-artist", "/", "#album", "/", "#number", " ", "-", " ", "#title">>

PathPatterns ==
    {DEFAULT_PATH_PATTERN, <<"#album", "/", "#title">>, <<"#number", "-padded">>,
     <<"#album", "-artist">>, <<"#track", "-artist">>, <<"#artist", "-id">>,
     <<"#album", "-id">>, <<"#track", "-id">>, <<"#number">>, <<"#title">>, <<"#album">>,
     <<"#year">>, <<"#artist">>, <<"music", "/", "#artist", " ", "-", " ", "#title">>}

\* the state of main when the path of a track is to be prepared; "legacy"
\* is the main of main.py, whose tracks have an album and a title
InitPath ==
    /\ pc \in {"path", "legacy_path"}
    /\ path_pattern \in PathPatterns
    /\ meta \in Metas
    /\ pc = "legacy_path" => (meta.albums # <<>> /\ meta.title # JNull)
    /\ unsafe_path \in BOOLEAN
    /\ prepared = NotRun
    /\ IdleUrl /\ IdleWrite /\ IdlePage /\ IdleBatch
    /\ IdleSign /\ IdleDownload /\ IdleCrypt /\ IdleParse /\ IdleRun /\ IdleRetry
    /\ IdleSelect

\* core.prepare_base_path(args.path_pattern, track, args.unsafe_path)
PrepareBasePath ==
    /\ pc = "path"
    /\ prepared' = Ok(prepare_base_path(path_pattern, meta, unsafe_path))
    /\ pc' = "prepared"
    /\ UNCHANGED <<path_pattern, meta, unsafe_path, urlVars, writeVars, pageVars, batchVars,
                   signVars, downloadVars, cryptVars, parseVars, runVars, retryVars,
                   selectVars>>

\* main.py: prepare_track_path(args.path_pattern, not args.unsafe_path, track)
PrepareTrackPath ==
    /\ pc = "legacy_path"
    /\ prepared' = Ok(prepare_track_path(path_pattern, ~unsafe_path, meta))
    /\ pc' = "legacy_prepared"
    /\ UNCHANGED <<path_pattern, meta, unsafe_path, urlVars, writeVars, pageVars, batchVars,
                   signVars, downloadVars, cryptVars, parseVars, runVars, retryVars,
                   selectVars>>

NextPath == PrepareBasePath \/ PrepareTrackPath

SpecPath == InitPath /\ [][NextPath]_vars

\* ---- the track loop of the legacy main.py ---------------------------------
\* result_tracks is a list of parsed (hence available) tracks
InitLegacyRun ==
    /\ pc = "legacy"
    /\ args \in {o \in Options : ~o.only_music /\ ~o.stick_to_artist}
    /\ album_ids = <<>>
    /\ result_tracks \in
          UNION {[1..n -> {RunTrack(a, k, i) :
                              a \in {b \in RunAlbums : b.id # 0},
                              k \in {"good", "no_cover", "on_disk", "empty_cover"},
                              i \in 1..2}] :
                    n \in 0..MaxPlaylist}
    /\ \A i, j \in DOMAIN result_tracks :
          result_tracks[i].id = result_tracks[j].id =>
              result_tracks[i] = result_tracks[j]
    /\ files = FilesOnDisk(InputTracks(album_ids, result_tracks), ".mp3")
    /\ InitRunCommon

\* main.py: one pass of the body of "for track in result_tracks"
LegacyProcessTrack ==
    /\ pc = "legacy"
    /\ run = Running
    /\ result_tracks # <<>>
    /\ LET track == Head(result_tracks)
           cover == LegacyCoverPart(track, args.embed_cover, covers_cache) IN
       /\ processed' = Append(processed, track)
       /\ result_tracks' = Tail(result_tracks)
       /\ IF args.skip_existing /\ LegacyFileExists(track.save_path, files)
          THEN UNCHANGED <<printed, downloaded, covers_cache, cover_fetches, files,
                           info_requests>>
          ELSE /\ info_requests' = Append(info_requests, track.id)
               /\ printed' = Append(printed, Message("downloading", track.id))
               /\ cover_fetches' = cover_fetches \o cover.fetches
               /\ covers_cache' = cover.cache
               /\ downloaded' = Append(downloaded,
                                       [track |-> track, cover |-> cover.result.val])
               /\ files' = files \cup {track.save_path \o <<".mp3">>}
    /\ UNCHANGED <<mainVars, pc, args, album_ids, run, first_run, signVars, downloadVars, cryptVars,
                   parseVars, retryVars, selectVars>>

NextLegacyRun == LegacyProcessTrack \/ FinishRun

SpecLegacyRun == InitLegacyRun /\ [][NextLegacyRun]_vars

\* --------------------------------------------------------------------------
\* Properties
\* --------------------------------------------------------------------------
\* C1: sign_params builds the HMAC message from the values of ts, trackId,
\* quality, codecs, transports in that fixed sequence (commas removed),
\* whatever the insertion order of the dict it is given.
C1_MessageInFixedOrder ==
    pc = "signed" =>
        serialized = RemoveCommas(Concat(
            [i \in 1..5 |-> py_str(Item(params, SIGN_KEYS[i]))]))

\* C2: the download-info request carries quality lq / nq / lossless for
\* --quality 0 / 1 / 2, codecs "flac,flac-mp4,mp3,aac,he-aac,aac-mp4,
\* he-aac-mp4" and transports "encraw".
C2_RequestParameters ==
    pc \in {"resolved", "downloaded"} =>
        /\ Item(request, "quality") =
             JStr(CASE cli_quality = 0 -> <<"lq">>
                    [] cli_quality = 1 -> <<"nq">>
                    [] cli_quality = 2 -> <<"lossless">>)
        /\ Item(request, "codecs") =
             JStr(<<"flac", ",", "flac-mp4", ",", "mp3", ",", "aac", ",",
                    "he-aac", ",", "aac-mp4", ",", "he-aac-mp4">>)
        /\ Item(request, "transports") = JStr(<<"encraw">>)

C2_Witness ==
    /\ pc = "resolved" /\ cli_quality = 2
    /\ Item(request, "quality") = JStr(<<"lossless">>)

SevenCodecs == {<<"flac">>, <<"flac-mp4">>, <<"mp3">>, <<"aac">>, <<"he-aac">>,
                <<"aac-mp4">>, <<"he-aac-mp4">>}

\* the response is a well-typed download-info answer
WellTypedResponse ==
    /\ response.t = "dict" /\ IsT(response, "download_info", "dict")
    /\ \A k \in {"quality", "codec", "urls", "bitrate"} :
         Has(response.d["download_info"], k)

ResponseCodec == response.d["download_info"].d["codec"].s

C4_CodecTable ==
    (pc = "resolved" /\ WellTypedResponse /\ ResponseCodec \in SevenCodecs) =>
        /\ info.ok
        /\ info.val.download_info.file_format =
             CASE ResponseCodec = <<"flac">> -> [container |-> "FLAC", codec |-> "FLAC"]
               [] ResponseCodec = <<"flac-mp4">> -> [container |-> "MP4", codec |-> "FLAC"]
               [] ResponseCodec = <<"mp3">> -> [container |-> "MP3", codec |-> "MP3"]
               [] OTHER -> [container |-> "MP4", codec |-> "AAC"]

C4_Witness ==
    /\ pc = "resolved" /\ WellTypedResponse /\ ResponseCodec = <<"flac-mp4">>
    /\ info.ok
    /\ info.val.download_info.file_format = [container |-> "MP4", codec |-> "FLAC"]

\* the payload was retrieved (download_track got past random.choice and
\* retrieve)
Fetched == pc = "downloaded" /\ (~track_data.ok => track_data.exc = "ValueError")

ResponseHasKey ==
    /\ Has(response.d["download_info"], "key")
    /\ response.d["download_info"].d["key"].t = "str"

\* C5: a response without a key gives a descriptor with the empty key;
\* download_track returns the payload as fetched exactly when the key is
\* empty, and the outcome of its AES-CTR decryption for a non-empty key.
C5_KeyDefaultAndPassThrough ==
    /\ (pc \in {"resolved", "downloaded"} /\ info.ok /\ ~ResponseHasKey) =>
          info.val.download_info.decryption_key = <<>>
    /\ (pc \in {"resolved", "downloaded"} /\ info.ok /\ ResponseHasKey) =>
          info.val.download_info.decryption_key =
              response.d["download_info"].d["key"].s
    /\ Fetched =>
          IF info.val.download_info.decryption_key = <<>>
          THEN track_data = Ok(payload)
          ELSE LET kb == FromHex(info.val.download_info.decryption_key) IN
               IF kb.ok /\ Len(kb.val) \in {16, 24, 32}
               THEN track_data = Ok(AesCtr(kb.val, payload))
               ELSE ~track_data.ok

C5_Witness ==
    /\ Fetched /\ ~ResponseHasKey /\ Len(payload) > 0
    /\ info.val.download_info.decryption_key = <<>>
    /\ track_data = Ok(payload)

C5_WitnessDecrypted ==
    /\ Fetched /\ Len(payload) > 0
    /\ info.val.download_info.decryption_key = KEY_A
    /\ track_data.ok /\ track_data.val # payload

\* C6: decrypting the AES-CTR encryption of a plaintext with the same
\* 16-byte key gives the plaintext back, and the length is preserved.
C6_RoundTrip ==
    /\ pc \in {"encrypted", "decrypted"} =>
          cipher.ok /\ Len(cipher.val) = Len(plaintext)
    /\ pc = "decrypted" => recovered = Ok(plaintext)

C6_Witness ==
    /\ pc = "decrypted" /\ Len(plaintext) > AES_BLOCK_SIZE
    /\ cipher.val # plaintext /\ recovered = Ok(plaintext)

TrackParsed == pc \in {"parsed_models", "parsed_main"}

\* the raw track's available flag is false, or the key is missing
UnavailableOrMissing == ~Has(raw, "available") \/ raw.d["available"] = JBool(FALSE)

\* C7: for a raw track whose available flag is false or missing,
\* BasicTrackInfo.from_json returns None and raises nothing.
C7_UnavailableReturnsNone ==
    (TrackParsed /\ UnavailableOrMissing) => parsed = Ok(JNull)

\* the entries of the parsed response, in response order
ResponseEntries ==
    CASE pc = "parsed_album" -> VolumeTracks(raw)
      [] pc = "parsed_artist" -> DictGet(raw, "albums", JList(<<>>)).l
      [] pc = "parsed_playlist" -> DictGet(raw.d["playlist"], "tracks", JList(<<>>)).l

\* an entry with a required field missing
MalformedEntry(e) ==
    e \in {TRACK_NO_TITLE, TRACK_BAD_ALBUM, ALBUM_NO_META_TYPE, ALBUM_NO_ARTISTS}

\* the well-formed entries the caller is to get (an unavailable track is
\* well-formed and dropped by design)
ExpectedEntries ==
    SelectSeq(ResponseEntries,
              LAMBDA e : ~MalformedEntry(e) /\ (Has(e, "available") => Truthy(e.d["available"])))

ReturnedEntries ==
    IF pc = "parsed_artist" THEN parsed.val.albums ELSE parsed.val.tracks

EntriesSkippedAndReturned ==
    /\ parsed.ok
    /\ Len(ReturnedEntries) = Len(ExpectedEntries)
    /\ \A i \in DOMAIN ReturnedEntries :
         ReturnedEntries[i].id =
             IF pc = "parsed_artist" THEN ExpectedEntries[i].d["id"]
             ELSE py_str(ExpectedEntries[i].d["id"])

\* C8: a malformed track or album entry of an album, playlist or artist
\* response does not abort the parsing of the response: it is skipped and
\* every well-formed entry is returned.
C8_MalformedEntrySkipped ==
    pc \in {"parsed_album", "parsed_artist", "parsed_playlist"} =>
        EntriesSkippedAndReturned

\* the part of C8 that the code keeps: malformed track entries of album and
\* playlist responses are skipped, each with one logger.error call
C8_TrackEntriesSkipped ==
    pc \in {"parsed_album", "parsed_playlist"} =>
        /\ EntriesSkippedAndReturned
        /\ log = Len(SelectSeq(ResponseEntries, MalformedEntry))

ArtistWellFormed(a) ==
    /\ Has(a, "id") /\ Has(a, "name")
    /\ Truthy(DictGet(a, "decomposed", JNull)) =>
         \A i \in DOMAIN a.d["decomposed"].l :
            a.d["decomposed"].l[i].t = "dict" =>
                Has(a.d["decomposed"].l[i], "id") /\ Has(a.d["decomposed"].l[i], "name")

\* the raw track is available and every field but albums is as the parser
\* needs it
AvailableAndWellFormed ==
    /\ Has(raw, "available") /\ Truthy(raw.d["available"])
    /\ Has(raw, "id") /\ Has(raw, "title") /\ Has(raw, "realId")
    /\ Has(raw, "artists")
    /\ \A i \in DOMAIN raw.d["artists"].l : ArtistWellFormed(raw.d["artists"].l[i])
    /\ Has(raw, "lyricsInfo") => raw.d["lyricsInfo"].t = "dict"

\* a track came back and its album is the synthesized one
SynthesizedAlbumReturned ==
    /\ parsed.ok
    /\ parsed.val.t = "track"
    /\ parsed.val.id = py_str(raw.d["id"])
    /\ parsed.val.album.t = "album"
    /\ parsed.val.album.id = JStr(parsed.val.id)
    /\ parsed.val.album.title = parsed.val.title
    /\ parsed.val.album.year = JNull
    /\ parsed.val.album.release_date = JNull

\* C9 as stated: an available raw track without an albums entry (key missing
\* or array empty) comes back with the synthesized album.
C9_SynthesizedWhenMissingOrEmpty ==
    (TrackParsed /\ AvailableAndWellFormed
       /\ (~Has(raw, "albums") \/ raw.d["albums"] = JList(<<>>))) =>
        SynthesizedAlbumReturned

\* C9 amended: an available raw track whose albums array is present and empty
\* comes back with the synthesized album (id = track id, title = track title,
\* no year, no release date); with the albums key missing no track comes
\* back; every track that comes back has exactly one album.
C9_SynthesizedWhenEmpty ==
    /\ (TrackParsed /\ AvailableAndWellFormed /\ Has(raw, "albums")
          /\ raw.d["albums"] = JList(<<>>)) =>
            SynthesizedAlbumReturned
    /\ (TrackParsed /\ ~Has(raw, "albums")) =>
            (parsed.ok => parsed.val = JNull)
    /\ (TrackParsed /\ parsed.ok /\ parsed.val # JNull) =>
            (parsed.val.t = "track" /\ parsed.val.album.t = "album")

C9_Witness ==
    /\ TrackParsed /\ AvailableAndWellFormed
    /\ Has(raw, "albums") /\ raw.d["albums"] = JList(<<>>)
    /\ Has(raw, "version")
    /\ parsed.ok /\ parsed.val.t = "track"
    /\ parsed.val.album.id = JStr(<<"1">>)
    /\ parsed.val.album.title = <<"X", " (", "Remix", ")">>

\* number of artist objects in the decomposed list of an entry
DecomposedDicts(a) ==
    IF Truthy(DictGet(a, "decomposed", JNull))
    THEN {p \in DOMAIN a.d["decomposed"].l : a.d["decomposed"].l[p].t = "dict"}
    ELSE {}

\* position in decomposed of the k-th artist object of an entry
KthDict(a, k) ==
    CHOOSE p \in DecomposedDicts(a) :
        Cardinality({q \in DecomposedDicts(a) : q <= p}) = k

RECURSIVE SumDicts(_, _)
SumDicts(data, n) ==
    IF n = 0 THEN 0 ELSE Cardinality(DecomposedDicts(data[n])) + SumDicts(data, n - 1)

ArtistOf(a) == [t |-> "artist", id |-> a.d["id"], name |-> a.d["name"].s]

\* C10: parse_artists returns each input entry, in input order, followed by
\* the artist objects of its decomposed list in list order; non-objects are
\* left out and nothing is deduplicated, so the output length is the number
\* of entries plus the number of artist objects in their decomposed lists.
C10_ParseArtistsFlattens ==
    pc = "parsed_artists" =>
        /\ parsed.ok <=> \A i \in DOMAIN raw.l : ArtistWellFormed(raw.l[i])
        /\ parsed.ok =>
            /\ Len(parsed.val) = Len(raw.l) + SumDicts(raw.l, Len(raw.l))
            /\ \A i \in DOMAIN raw.l :
                 LET at == i + SumDicts(raw.l, i - 1) IN
                 /\ parsed.val[at] = ArtistOf(raw.l[i])
                 /\ \A k \in 1..Cardinality(DecomposedDicts(raw.l[i])) :
                      parsed.val[at + k] =
                          ArtistOf(raw.l[i].d["decomposed"].l[KthDict(raw.l[i], k)])

C10_Witness ==
    /\ pc = "parsed_artists" /\ parsed.ok
    /\ Len(raw.l) = 2
    /\ \A i \in 1..2 : DictGet(raw.l[i], "decomposed", JNull) = JList(<<ART_5, FEAT, ART_6>>)
    /\ Len(parsed.val) = 6

\* --------------------------------------------------------------------------
\* Lyrics flag and the worked example of the normaliser
\* --------------------------------------------------------------------------
AlbumWellFormed(a) ==
    /\ Has(a, "artists") /\ Has(a, "title") /\ Has(a, "id") /\ Has(a, "metaType")
    /\ \A i \in DOMAIN a.d["artists"].l : ArtistWellFormed(a.d["artists"].l[i])

\* the raw track is available and every field but lyricsInfo is as the parser
\* needs it
AvailableExceptLyrics ==
    /\ Has(raw, "available") /\ Truthy(raw.d["available"])
    /\ Has(raw, "id") /\ Has(raw, "title") /\ Has(raw, "realId")
    /\ Has(raw, "artists")
    /\ \A i \in DOMAIN raw.d["artists"].l : ArtistWellFormed(raw.d["artists"].l[i])
    /\ Has(raw, "albums")
    /\ raw.d["albums"].l # <<>> => AlbumWellFormed(raw.d["albums"].l[1])

\* the lyrics-info path ends before hasAvailableTextLyrics
LyricsKeyMissing == ~Has(raw, "lyricsInfo")
LyricsNull == Has(raw, "lyricsInfo") /\ raw.d["lyricsInfo"] = JNull
LyricsFlagMissing ==
    /\ Has(raw, "lyricsInfo") /\ raw.d["lyricsInfo"].t = "dict"
    /\ ~Has(raw.d["lyricsInfo"], "hasAvailableTextLyrics")

TrackWithoutLyrics ==
    /\ parsed.ok
    /\ parsed.val.t = "track"
    /\ parsed.val.has_lyrics = JBool(FALSE)

\* C11: for an available raw track whose lyrics-info path is missing at any
\* point (no lyricsInfo key, lyricsInfo null, no hasAvailableTextLyrics), the
\* parser raises nothing and returns a track with has_lyrics = False.
C11_LyricsPathNeverRaises ==
    (TrackParsed /\ AvailableExceptLyrics
       /\ (LyricsKeyMissing \/ LyricsNull \/ LyricsFlagMissing)) =>
        TrackWithoutLyrics

\* the part of C11 that the code keeps: a missing lyricsInfo key and a
\* lyricsInfo object without the flag give has_lyrics = False; lyricsInfo null
\* gives no track (AttributeError in main.py, logged and None in models.py)
C11_LyricsMissingIsFalse ==
    /\ (TrackParsed /\ AvailableExceptLyrics /\ (LyricsKeyMissing \/ LyricsFlagMissing)) =>
            TrackWithoutLyrics
    /\ (TrackParsed /\ AvailableExceptLyrics /\ LyricsNull) =>
            IF pc = "parsed_main" THEN parsed = Raise("AttributeError")
            ELSE parsed = Ok(JNull) /\ log = 1

\* the worked example: exactly these fields
EXAMPLE_TRACK ==
    JDict([id |-> JInt(1), title |-> JStr(<<"X">>), version |-> JStr(<<"Remix">>),
           available |-> JBool(TRUE), albums |-> JList(<<ALBUM_NO_META_TYPE>>),
           artists |-> JList(<<ART_5>>)])

\* the worked example with the two fields the parser subscripts added: realId
\* on the track, metaType on its album
EXAMPLE_TRACK_COMPLETE ==
    JDict([id |-> JInt(1), title |-> JStr(<<"X">>), version |-> JStr(<<"Remix">>),
           available |-> JBool(TRUE), albums |-> JList(<<ALBUM_FULL>>),
           artists |-> JList(<<ART_5>>), realId |-> JStr(<<"1">>)])

ExampleTrackReturned ==
    /\ parsed.ok
    /\ parsed.val.t = "track"
    /\ parsed.val.title = <<"X", " (", "Remix", ")">>
    /\ parsed.val.number = JInt(3)
    /\ parsed.val.album.title = <<"A">>

\* C12 as stated: the example JSON with exactly its fields parses to a track
\* with title "X (Remix)", number 3 and album title "A".
C12_ExampleParses ==
    (TrackParsed /\ raw = EXAMPLE_TRACK) => ExampleTrackReturned

\* C12 amended: the example JSON parses to that track once it also carries
\* realId and its album carries metaType; as printed it yields no track
\* (KeyError in main.py, logged and None in models.py).
C12_CompleteExampleParses ==
    /\ (TrackParsed /\ raw = EXAMPLE_TRACK_COMPLETE) => ExampleTrackReturned
    /\ (TrackParsed /\ raw = EXAMPLE_TRACK) =>
            IF pc = "parsed_main" THEN parsed = Raise("KeyError")
            ELSE parsed = Ok(JNull) /\ log = 1

C12_Witness ==
    /\ pc = "parsed_models" /\ raw = EXAMPLE_TRACK_COMPLETE
    /\ ExampleTrackReturned
    /\ parsed.val.disc_number = JInt(1)
    /\ log = 0

\* --------------------------------------------------------------------------
\* Retries
\* --------------------------------------------------------------------------
ThroughWrapper == pc \in {"request", "sleeping", "returned", "raised"}

\* every call of the request before the n-th ended in a NetworkError
AllNetworkErrorsBefore(n) ==
    \A k \in 1..(n - 1) : original_wrapper(Answer(network, k)) = Raise("NetworkError")

\* C16: with --tries N > 0 a request failing with a network error each time
\* is attempted at most N times in all before the error reaches the caller;
\* with N = 0 a network error never reaches the caller.
C16_AtMostNAttempts ==
    /\ (ThroughWrapper /\ max_try_count > 0) => attempts <= max_try_count
    /\ (ThroughWrapper /\ max_try_count = 0 /\ ~outcome.ok) =>
            outcome.exc # "NetworkError"

\* what the code does about C16: N retries, so up to N + 1 attempts
C16_AtMostNRetries ==
    /\ (ThroughWrapper /\ max_try_count > 0) =>
            /\ attempts <= max_try_count + 1
            /\ outcome = Raise("NetworkError") => attempts = max_try_count + 1
    /\ (ThroughWrapper /\ max_try_count = 0 /\ ~outcome.ok) =>
            outcome.exc # "NetworkError"

\* C17: a request that keeps getting a rate-limiting answer is not retried
\* for ever in silence: in the end the caller has the error, or a message has
\* been printed.
C17_RateLimitSurfaces ==
    (network.then = "rate_limited") ~> (outcome # NotRun \/ messages > 0)

\* what the code does about C17: the error surfaces whenever --tries is not 0
C17_RateLimitSurfacesWithLimit ==
    (network.then = "rate_limited" /\ (max_try_count > 0 \/ pc = "legacy_request"))
        ~> (outcome # NotRun \/ messages > 0)

\* C18: the wrapper calls the request again only after a NetworkError, with
\* one sleep of retry_delay between two calls in a row; any other exception
\* and the first result end it at once.
C18_RetryOnlyNetworkErrors ==
    /\ (pc = "request" /\ attempts < MaxCount) =>
            /\ AllNetworkErrorsBefore(attempts + 1)
            /\ try_count = attempts
            /\ slept = retry_delay * attempts
    /\ (pc = "sleeping" /\ attempts < MaxCount) =>
            /\ AllNetworkErrorsBefore(attempts + 1)
            /\ try_count = attempts
            /\ slept = retry_delay * (attempts - 1)
    /\ pc \in {"returned", "raised"} =>
            /\ AllNetworkErrorsBefore(attempts)
            /\ outcome = original_wrapper(Answer(network, attempts))
            /\ slept = retry_delay * (attempts - 1)
            /\ (pc = "returned") = outcome.ok

C18_Witness ==
    /\ pc = "returned" /\ attempts = 3 /\ retry_delay = 2 /\ slept = 4

C18_WitnessOtherError ==
    /\ pc = "raised" /\ outcome = Raise("UnauthorizedError")
    /\ attempts = 2 /\ max_try_count = 3

\* --------------------------------------------------------------------------
\* Candidate selector
\* --------------------------------------------------------------------------
\* the comparison key as the claim words it, doubled
ClaimedKey2(codec, bitrate) ==
    CASE codec = "aac" /\ bitrate > 192 -> 3 * bitrate
      [] codec = "aac" /\ bitrate <= 192 -> bitrate
      [] codec = "mp3" -> 2 * bitrate

Kept == {i \in DOMAIN candidates : candidates[i].codec \in {"mp3", "aac"}}

EXAMPLE_CANDIDATES ==
    <<Candidate("mp3", 128), Candidate("aac", 256), Candidate("aac", 160)>>

\* C19: the selector picks among the mp3 and aac candidates only, one whose
\* effective bitrate no other exceeds for a best-quality request and one
\* whose effective bitrate is under no other's for a lowest-quality request;
\* for (mp3,128), (aac,256), (aac,160) that is aac@256 and aac@160.
C19_SelectsByEffectiveBitrate ==
    pc = "selected" =>
        /\ selected.ok <=> Kept # {}
        /\ selected.ok =>
            /\ \E i \in Kept : candidates[i] = selected.val
            /\ \A i \in Kept :
                 IF best
                 THEN ClaimedKey2(candidates[i].codec, candidates[i].bitrate)
                        <= ClaimedKey2(selected.val.codec, selected.val.bitrate)
                 ELSE ClaimedKey2(selected.val.codec, selected.val.bitrate)
                        <= ClaimedKey2(candidates[i].codec, candidates[i].bitrate)
        /\ candidates = EXAMPLE_CANDIDATES =>
            selected = Ok(IF best THEN Candidate("aac", 256) ELSE Candidate("aac", 160))

C19_Witness ==
    /\ pc = "selected" /\ candidates = EXAMPLE_CANDIDATES /\ best
    /\ selected = Ok(Candidate("aac", 256))

C19_WitnessLowest ==
    /\ pc = "selected" /\ candidates = EXAMPLE_CANDIDATES /\ ~best
    /\ selected = Ok(Candidate("aac", 160))

\* --------------------------------------------------------------------------
\* The track loop
\* --------------------------------------------------------------------------
\* number of covers fetched from the network for an album id
FetchesOf(album_id) ==
    Cardinality({i \in DOMAIN cover_fetches : cover_fetches[i] = album_id})

\* C13: in a run with cover embedding on, the cover of an album id is fetched
\* from the network at most once, however many of its tracks are downloaded.
C13_OneFetchPerAlbum ==
    (run # NotRun /\ args.embed_cover) =>
        \A i \in DOMAIN cover_fetches :
            cover_fetches[i] # 0 => FetchesOf(cover_fetches[i]) <= 1

\* what the code does about C13: one fetch for every downloaded track that
\* has a cover, and the cover embedded is the first one fetched for the album
C13_OneFetchPerTrack ==
    (run # NotRun /\ run.ok) =>
        /\ Len(cover_fetches) =
              Cardinality({i \in DOMAIN downloaded : downloaded[i].track.cover_uri # JNull})
        /\ \A a \in DOMAIN covers_cache : FetchesOf(a) >= 1

\* the legacy loop of main.py on C13: a cover is fetched only on a cache
\* miss, so an album's cover is fetched once unless the bytes fetched are
\* empty (an empty entry of the cache counts as a miss)
C13_LegacyFetchesOnMiss ==
    (run # NotRun /\ pc = "legacy" /\ args.embed_cover) =>
        \A i \in DOMAIN cover_fetches :
            FetchesOf(cover_fetches[i]) > 1 =>
                \E j \in DOMAIN processed :
                    /\ processed[j].album.id = cover_fetches[i]
                    /\ processed[j].cover_uri # JNull
                    /\ processed[j].cover_bytes = <<>>

\* the loop got as far as resolving the download info of the track
Resolved(track) ==
    track.available /\ ~(args.skip_existing /\ track.on_disk)

UnknownCodec(track) == ~DownloadableTrack(track.response).ok

\* C14: a track whose download info names an unknown codec does not end the
\* run: the failure is logged and the later tracks are processed.
C14_UnknownCodecDoesNotAbort ==
    run # NotRun =>
        /\ run # Raise("KeyError")
        /\ \A i \in DOMAIN processed :
             (Resolved(processed[i]) /\ UnknownCodec(processed[i])
                /\ \A j \in DOMAIN downloaded : downloaded[j].track.id # processed[i].id) =>
                \E m \in DOMAIN printed : printed[m].about = processed[i].id

\* what the code does about C14: the first such track ends the run with the
\* KeyError, nothing is printed for it, and no later track is taken
C14_UnknownCodecAborts ==
    run # NotRun =>
        /\ (run = Raise("KeyError")) =>
              /\ UnknownCodec(processed[Len(processed)])
              /\ \A m \in DOMAIN printed : printed[m].about # processed[Len(processed)].id
                    \/ printed[m].kind = "downloading"
        /\ \A i \in 1..(Len(processed) - 1) :
              ~(Resolved(processed[i]) /\ UnknownCodec(processed[i])
                  /\ \A j \in DOMAIN downloaded : downloaded[j].track.id # processed[i].id)

\* a step of the loop that passes over a track without downloading it
TrackSkipped ==
    /\ processed' # processed
    /\ downloaded' = downloaded
    /\ run' = Running

\* a step of the artist listing that passes over an album
AlbumSkipped ==
    /\ pc = "artist" /\ album_ids # <<>>
    /\ album_ids' = Tail(album_ids)
    /\ ~filter_album(Head(album_ids).album, args).pass

\* C15: every step that skips a track or an album prints or logs a reason.
C15_EverySkipPrintsReason ==
    [][(TrackSkipped \/ AlbumSkipped) => Len(printed') > Len(printed)]_vars

\* what the code does about C15: every skip but that of an existing file
\* prints its reason
C15_SkipsButExistingPrintReason ==
    [][((TrackSkipped /\ Head(result_tracks).available = FALSE) \/ AlbumSkipped) =>
            Len(printed') > Len(printed)]_vars

\* C20: with --only-music no track of an album that is not music is
\* downloaded, whatever kind of identifier started the run.
C20_OnlyMusicDownloaded ==
    (run # NotRun /\ args.only_music) =>
        \A i \in DOMAIN downloaded : downloaded[i].track.album.meta_type = "music"

\* what the code does about C20: the filter works on an artist's albums only
C20_OnlyMusicForArtist ==
    (run # NotRun /\ args.only_music /\ pc = "artist") =>
        \A i \in DOMAIN downloaded : downloaded[i].track.album.meta_type = "music"

\* --------------------------------------------------------------------------
\* --stick-to-artist and --skip-existing
\* --------------------------------------------------------------------------
AlbumById(id) == CHOOSE a \in RunAlbums : a.id = id

AlbumSkipKinds == {"album_unavailable", "album_not_music", "album_stick_to_artist"}

\* the album is one of the requested artist: its first artist is that artist
OfRequestedArtist(album) == album.artists[1] = int(args.artist_id)

WroteAll == first_run.pass = 2 /\ first_run.wrote_all

\* C22: a second run with --skip-existing and the same arguments, right after
\* a run in which every track was written, makes no download-info request
\* and writes no audio file.
C22_SecondRunSkipsAll ==
    (run # NotRun /\ WroteAll /\ args.skip_existing) =>
        /\ info_requests = <<>>
        /\ downloaded = <<>>
        /\ run # Raise("KeyError")

\* the second run went over two tracks the first run wrote
C22_Witness ==
    /\ WroteAll /\ args.skip_existing /\ run = Ok("finished")
    /\ Len(processed) >= 2
    /\ \A i \in DOMAIN processed :
          (processed[i].save_path \o <<".flac">>) \in files

\* --------------------------------------------------------------------------
\* The suffix of the written file
\* --------------------------------------------------------------------------
\* C29: the suffix to_downloadable_track puts on the path of a descriptor is
\* fixed by the container (MP3 -> .mp3, MP4 -> .m4a, FLAC -> .flac) and is one
\* of AUDIO_FILE_SUFFIXES, so the --skip-existing check finds the file written
\* at that path.
C29_SuffixByContainer ==
    (pc \in {"resolved", "downloaded"} /\ info.ok) =>
        LET container == info.val.download_info.file_format.container
            suffix == info.val.path[Len(info.val.path)] IN
        /\ suffix = CASE container = "MP3" -> ".mp3"
                       [] container = "MP4" -> ".m4a"
                       [] container = "FLAC" -> ".flac"
                       [] OTHER -> "none"
        /\ suffix \in AUDIO_FILE_SUFFIXES
        /\ info.val.path = BASE_PATH \o <<suffix>>
        /\ FileExists(BASE_PATH, {info.val.path})

\* a FLAC stream in an MP4 container was resolved: the file is an .m4a
C29_Witness ==
    /\ pc = "resolved" /\ info.ok
    /\ info.val.download_info.file_format = FileFormat("MP4", "FLAC")
    /\ info.val.path[Len(info.val.path)] = ".m4a"

\* --------------------------------------------------------------------------
\* The identifier of the run
\* --------------------------------------------------------------------------
\* the identifiers that are set
IdsSet == {k \in DOMAIN ids : ids[k] # JNull}

\* the path ends in album/<n>/track/<m>; m starts at position d
EndsInAlbumTrack(path, d) ==
    /\ d <= Len(path) /\ \A j \in d..Len(path) : IsDigit(path[j])
    /\ d > 3 /\ SubSeq(path, d - 3, d - 1) = <<"/", "track", "/">>
    /\ \E a \in 1..(d - 4) :
          /\ \A j \in a..(d - 4) : IsDigit(path[j])
          /\ a > 2 /\ SubSeq(path, a - 2, a - 1) = <<"album", "/">>

\* one of the four patterns is found in the path
SomePatternMatches(path) ==
    \/ MatchStarts(ARTIST_RE, path) # {} \/ MatchStarts(ALBUM_RE, path) # {}
    \/ MatchStarts(TRACK_RE, path) # {}
    \/ \E i, k \in 1..Len(path) : i <= k /\ PlaylistMatch(path, i, k)

\* the patterns are tried in the order artist, album, track, playlist
FirstKindWins ==
    /\ MatchStarts(ARTIST_RE, url.s) # {} => IdsSet = {"artist_id"}
    /\ (MatchStarts(ARTIST_RE, url.s) = {} /\ MatchStarts(ALBUM_RE, url.s) # {}) =>
          IdsSet = {"album_id"}
    /\ (MatchStarts(ARTIST_RE, url.s) = {} /\ MatchStarts(ALBUM_RE, url.s) = {}
          /\ MatchStarts(TRACK_RE, url.s) # {}) => IdsSet = {"track_id"}

\* a path that matches no pattern ends main with 1 before init_client
NoMatchExits ==
    IF SomePatternMatches(url.s)
    THEN exit_code = JNull /\ Cardinality(IdsSet) = 1
    ELSE exit_code = JInt(1) /\ pc = "exited" /\ ~client /\ IdsSet = {}

\* C24: a URL is resolved to exactly one identifier kind, the patterns tried
\* in the order artist, album, track, playlist; a path ending in
\* album/<n>/track/<m> resolves to track m and not to album n; a path that
\* matches none of the patterns ends the run with 1 before any request.
C24_UrlResolvesToOneKind ==
    (pc \in {"init_client", "client_ready", "exited"} /\ url # JNull) =>
        /\ NoMatchExits
        /\ FirstKindWins
        /\ \A d \in 1..Len(url.s) :
              EndsInAlbumTrack(url.s, d) =>
                  /\ ids.album_id = JNull
                  /\ ids.track_id = JStr(SubSeq(url.s, d, Len(url.s)))

\* C24 as amended: the track is that of the first track/<digits> of the path,
\* which is m when no track/<digits> stands before album/<n>/track/<m>.
C24_UrlResolvesToFirstTrack ==
    (pc \in {"init_client", "client_ready", "exited"} /\ url # JNull) =>
        /\ NoMatchExits
        /\ FirstKindWins
        /\ \A d \in 1..Len(url.s) :
              EndsInAlbumTrack(url.s, d) =>
                  /\ ids.album_id = JNull
                  /\ \E i \in 1..Len(url.s) :
                        /\ OccursAt(url.s, <<"track", "/">>, i) /\ IsDigit(url.s[i + 2])
                        /\ \A j \in 1..(i - 1) :
                              ~(OccursAt(url.s, <<"track", "/">>, j) /\ IsDigit(url.s[j + 2]))
                        /\ ids.track_id = JStr(GroupAt(TRACK_RE, url.s, i))
                        /\ (i + 2 = d) => ids.track_id = JStr(SubSeq(url.s, d, Len(url.s)))

\* the path /album/7/track/42 was resolved to track 42 and the client was
\* initialised
C24_Witness ==
    /\ pc = "client_ready" /\ client
    /\ url = JStr(<<"/", "album", "/", "7", "/", "track", "/", "4", "2">>)
    /\ ids = [NoIds EXCEPT !.track_id = JStr(<<"4", "2">>)]

\* a path without an identifier ended main
C24_WitnessExit ==
    /\ pc = "exited" /\ exit_code = JInt(1) /\ ~client
    /\ url = JStr(<<"/", "x", "/", "x">>)

\* --------------------------------------------------------------------------
\* write_via_temporary_file
\* --------------------------------------------------------------------------
WriteCallVisible == pc \in {"write_bytes", "hook", "rename", "returned", "raised"}

\* the complete data, with the tags set when the call has a hook
NewFile == File("new", TRUE, fault.hook)

\* C25: at every moment of write_via_temporary_file the target path holds
\* what it held before the call or the complete data after the hook has
\* finished; when the write of the temporary file or the hook fails, the
\* target path is left as it was.
C25_TargetOldOrComplete ==
    WriteCallVisible =>
        /\ fs[TARGET_PATH] = fault.before
           \/ (fs[TARGET_PATH] = NewFile /\ pc = "returned")
        /\ pc = "returned" => fs[TARGET_PATH] = NewFile
        /\ (pc = "raised" /\ fault.step \in {"write", "hook"}) =>
              fs[TARGET_PATH] = fault.before

\* a call with a hook replaced an older file by the tagged new one
C25_Witness ==
    /\ pc = "returned" /\ fault.hook /\ fault.before = File("old", TRUE, TRUE)
    /\ fs[TARGET_PATH] = File("new", TRUE, TRUE)

\* a call whose hook failed left the older file in place
C25_WitnessFailure ==
    /\ pc = "raised" /\ fault.step = "hook" /\ fault.before = File("old", TRUE, TRUE)
    /\ fs[TARGET_PATH] = File("old", TRUE, TRUE)

\* C26: after write_via_temporary_file has ended, by a return or by any
\* exception from the write or from the hook, its temporary file does not
\* exist.
C26_TemporaryFileRemoved ==
    (pc = "returned" \/ (pc = "raised" /\ fault.step \in {"write", "hook"})) =>
        fs[temporary_file(TARGET_PATH)] = JNull

\* what the code does about C26: the temporary file is gone after a return
\* and after an InterruptedError; any other exception leaves it as the failed
\* step left it
C26_RemovedOnReturnOrInterrupt ==
    /\ pc = "returned" => fs[temporary_file(TARGET_PATH)] = JNull
    /\ (pc = "raised" /\ fault.step \in {"write", "hook"}
          /\ fault.exc = "InterruptedError") =>
             fs[temporary_file(TARGET_PATH)] = JNull

\* --------------------------------------------------------------------------
\* The album listing
\* --------------------------------------------------------------------------
\* every pager reports the page that was asked for, and per_page > 0
PagersWellBehaved ==
    \A p \in DOMAIN service :
        (service[p] # JNull /\ service[p].pager # JNull) =>
            service[p].pager.page = p /\ service[p].pager.per_page > 0

\* the listing ends with page p: no answer, no pager, or the last page
LastPage(p) ==
    \/ service[p] = JNull
    \/ service[p].pager = JNull
    \/ service[p].pager.per_page * (p + 1) >= service[p].pager.total

\* the albums of the pages that were answered, in the order of the requests
RECURSIVE AlbumsOfPages(_)
AlbumsOfPages(pages) ==
    IF pages = <<>> THEN <<>>
    ELSE (IF service[Head(pages)] = JNull THEN <<>>
          ELSE [i \in DOMAIN service[Head(pages)].albums |->
                    service[Head(pages)].albums[i].album])
         \o AlbumsOfPages(Tail(pages))

\* C27: when every pager reports the requested page and per_page > 0, the
\* listing asks for the pages 0, 1, 2, ... in this order, each once, stops
\* after the first page p with per_page * (p + 1) >= total (or the first
\* empty answer or missing pager), hence ends, and hands every album of
\* every fetched page to filter_album once.
C27_PagesInOrderOnce ==
    (pc \in {"list", "listed"} /\ PagersWellBehaved) =>
        /\ page_requests = [i \in 1..Len(page_requests) |-> i - 1]
        /\ \A i \in 1..(Len(page_requests) - 1) : ~LastPage(page_requests[i])
        /\ (page_requests # <<>> /\ (pc = "listed" \/ ~has_next)) =>
              LastPage(page_requests[Len(page_requests)])
        /\ (pc = "list" /\ has_next /\ page_requests # <<>>) =>
              ~LastPage(page_requests[Len(page_requests)])
        /\ Len(page_requests) <= MaxTotal + 1
        /\ pc = "listed" => page_requests # <<>>
        /\ [i \in DOMAIN filtered |-> filtered[i].album] = AlbumsOfPages(page_requests)

\* three pages of one album each were asked for and the listing ended
C27_Witness ==
    /\ pc = "listed" /\ PagersWellBehaved
    /\ page_requests = <<0, 1, 2>>
    /\ Len(filtered) = 3
    /\ service[2].pager # JNull

\* --------------------------------------------------------------------------
\* The tracks of a playlist
\* --------------------------------------------------------------------------
\* ceil(n / 10)
Batches(n) == (n + 9) \div 10

\* C28: for a playlist of n tracks playlist_tracks_gen makes ceil(n / 10)
\* track requests of at most 10 ids each, and the id lists requested, put
\* one after the other, are the playlist's track ids in playlist order.
C28_BatchesCoverPlaylist ==
    pc \in {"playlist_gen", "playlist_done"} =>
        /\ \A r \in DOMAIN track_requests :
              Len(track_requests[r]) >= 1 /\ Len(track_requests[r]) <= 10
        /\ Len(track_requests) <= Batches(Len(playlist))
        /\ \A k \in 1..Len(Concat(track_requests)) :
              Concat(track_requests)[k] = playlist[k]
        /\ pc = "playlist_done" =>
              /\ Len(track_requests) = Batches(Len(playlist))
              /\ Concat(track_requests) = playlist

\* a playlist of 21 tracks was fetched with three requests, the last of them
\* for one id
C28_Witness ==
    /\ pc = "playlist_done" /\ Len(playlist) = 21
    /\ Len(track_requests) = 3 /\ Len(track_requests[3]) = 1

\* ---- the path of a track --------------------------------------------------
PathPrepared == pc \in {"prepared", "legacy_prepared"}

\* the fields of a track a pattern may name, a placeholder that begins with
\* another one before it; legacy: the track as main.py holds it
PlaceholderFields(track, legacy, artist_placeholder) ==
    LET album == FirstOrNone(track.albums)
        album_artist == IF album = JNull THEN JNull ELSE FirstOrNone(album.artists)
        track_artist == FirstOrNone(track.artists)
        number == IF album # JNull /\ album.track_position # JNull
                  THEN JInt(album.track_position.index) ELSE JNull IN
    << Entry(<<"#number", "-padded">>,
             IF number # JNull
             THEN JStr(zfill(str(number), Len(str(album.track_count)))) ELSE JNull),
       Entry(<<"#album", "-artist">>, IF album_artist # JNull THEN album_artist.name ELSE JNull),
       Entry(<<"#artist", "-id">>, IF track_artist # JNull THEN track_artist.id ELSE JNull),
       Entry(<<"#album", "-id">>, IF album # JNull THEN album.id ELSE JNull),
       Entry(<<"#track", "-id">>, track.id),
       Entry(artist_placeholder, IF track_artist # JNull THEN track_artist.name ELSE JNull),
       Entry(<<"#number">>, number),
       Entry(<<"#title">>, IF legacy THEN track.title ELSE JStr(full_title(track))),
       Entry(<<"#album">>,
             IF album = JNull THEN JNull
             ELSE IF legacy THEN album.title ELSE JStr(full_title(album))),
       Entry(<<"#year">>, IF album # JNull THEN album.year ELSE JNull) >>

\* the pattern read from left to right, every placeholder replaced by the
\* cleared value of its field
RECURSIVE Expand(_, _, _)
Expand(text, fields, how) ==
    LET hits == {h \in (DOMAIN text) \X (DOMAIN fields) : OccursAt(text, fields[h[2]].k, h[1])} IN
    IF hits = {} THEN text
    ELSE LET at == MinOf({h[1] : h \in hits})
             field == fields[MinOf({h[2] : h \in {g \in hits : g[1] = at}})] IN
         SubSeq(text, 1, at - 1) \o Clear(str(field.v), how)
         \o Expand(SubSeq(text, at + Len(field.k), Len(text)), fields, how)

HowCleared ==
    IF pc = "prepared" THEN (IF unsafe_path THEN "unsafe" ELSE "safe")
    ELSE (IF unsafe_path THEN "none" ELSE "legacy")

ExpandedAs(artist_placeholder) ==
    prepared.val.path_str =
        Expand(path_pattern,
               PlaceholderFields(meta, pc = "legacy_prepared", artist_placeholder),
               HowCleared)
        \o (IF pc = "legacy_prepared" THEN <<".mp3">> ELSE <<>>)

\* C23: the path made of a pattern is the pattern with every listed
\* placeholder (#number, #artist, #album-artist, #title, #album, #year,
\* #artist-id, #album-id, #track-id, #number-padded) replaced by the value of
\* its own field: none is left as it is, none is replaced as the shorter
\* placeholder it begins with
C23_EveryPlaceholderExpanded == PathPrepared => ExpandedAs(<<"#artist">>)

\* what prepare_base_path does do: it expands the placeholders its help text
\* lists, #track-artist being the name of the track's artist
PrepareBasePathExpandsDocumented ==
    (pc = "prepared" /\ ~OccursIn(path_pattern, <<"#artist">>, <<"-id">>))
        => ExpandedAs(<<"#track", "-artist">>)

\* the pattern has as many components as the path
SameComponentCount == Len(prepared.val.parts) = Len(PathParts(path_pattern))

\* no component is ".." or holds a separator
NoParentOrSeparator ==
    \A i \in DOMAIN prepared.val.parts :
        /\ prepared.val.parts[i] # <<".", ".">>
        /\ \A j \in DOMAIN prepared.val.parts[i] : ~IsSeparator(prepared.val.parts[i][j])

\* no component is longer than 250 characters
PartsWithinLength ==
    \A i \in DOMAIN prepared.val.parts :
        Len(prepared.val.parts[i]) <= MAX_FILE_NAME_LENGTH_WITHOUT_SUFFIX

\* C30: whatever the track and the unsafe-path flag, the path
\* prepare_base_path returns has as many components as the pattern, none of
\* them ".." or holding a path separator, none longer than 250 characters
C30_PathStaysInside ==
    pc = "prepared" => (SameComponentCount /\ NoParentOrSeparator /\ PartsWithinLength)

\* what does hold of prepare_base_path: the length of every component
PreparedPartsWithinLength == pc = "prepared" => PartsWithinLength
====
